---- MODULE Spec2Model ----
(***************************************************************************)
(* Model of Bun.sliceAnsi (src/bun.js/bindings/sliceAnsi.cpp): the ANSI     *)
(* tokenizer, the SGR style tracker, the grapheme width accumulator and the *)
(* single-pass streaming slice engine, instantiated for 16-bit code units.  *)
(*                                                                         *)
(* Strings are sequences of code units (naturals).  C pointers into the     *)
(* input are 0-based indices; At(d, i) reads the unit at index i.           *)
(* The output buffers hold one chunk per append call of the code: the       *)
(* units appended (field s), plus two history fields, the kind of append    *)
(* (field k) and the input index the units were copied from (field i, -1    *)
(* for units that are not copied from the input).  Flat(result) is the      *)
(* string the code returns.                                                 *)
(***************************************************************************)
EXTENDS Integers, Sequences, FiniteSets, TLC

\* ---------------------------------------------------------------- units
ESC == 27
BEL == 7
C1_DCS == 144
C1_SOS == 152
C1_CSI == 155
C1_ST == 156
C1_OSC == 157
C1_PM == 158
C1_APC == 159
CR == 13
LF == 10
ZWJ == 8205
KEYCAP == 8419
VS15 == 65038
VS16 == 65039
\* SgrParams::kMax
kMax == 32
\* end == SIZE_MAX means unbounded; scaled to fit TLC's 32-bit integers
SIZE_MAX == 2147483647
\* std::numeric_limits<double>::infinity(), above every finite index modelled
Infinity == 1000000000

At(d, i) == d[i + 1]

Min2(a, b) == IF a < b THEN a ELSE b

\* smallest member of a non-empty finite set of integers
SetMin(S) == CHOOSE x \in S : \A y \in S : x <= y

\* String::number(code)
RECURSIVE NumStr(_)
NumStr(n) == IF n < 10 THEN <<48 + n>> ELSE NumStr(n \div 10) \o <<48 + (n % 10)>>

\* ------------------------------------------------- external Unicode data
\* The three oracles are Zig exports of the repository (visible.zig), given
\* here on the codepoints the model's inputs use.
IsRegionalIndicator(cp) == cp >= 127462 /\ cp <= 127487
IsSkinTone(cp) == cp >= 127995 /\ cp <= 127999
IsExtPict(cp) == cp \in {128104, 128105, 128103, 8986, 10084}
IsExtend(cp) == (cp >= 768 /\ cp <= 879) \/ cp \in {KEYCAP, VS15, VS16} \/ IsSkinTone(cp)
IsControlCp(cp) == cp < 32 \/ (cp >= 127 /\ cp <= 159) \/ cp = 8203

Bun__codepointWidth(cp) ==
    IF IsControlCp(cp) \/ IsExtend(cp) \/ cp = ZWJ THEN 0
    ELSE IF cp \in {128104, 128105, 128103, 8986} \/ (cp >= 19968 /\ cp <= 40959)
              \/ (cp >= 12352 /\ cp <= 12543) THEN 2
    ELSE 1

Bun__isEmojiPresentation(cp) == cp \in {128104, 128105, 128103, 8986} \/ IsRegionalIndicator(cp)

\* Bun__graphemeBreak(cp1, cp2, &state): <<break?, state'>>.  state 1: the
\* cluster so far is ExtPict Extend*; 2: ExtPict Extend* ZWJ; 3: an odd
\* number of regional indicators.
Bun__graphemeBreak(cp1, cp2, state) ==
    LET pict1 == IsExtPict(cp1) \/ state = 1
    IN  IF IsControlCp(cp1) \/ IsControlCp(cp2) THEN <<TRUE, 0>>
        ELSE IF cp2 = ZWJ THEN <<FALSE, IF pict1 THEN 2 ELSE 0>>
        ELSE IF IsExtend(cp2) THEN <<FALSE, IF pict1 THEN 1 ELSE 0>>
        ELSE IF cp1 = ZWJ /\ state = 2 /\ IsExtPict(cp2) THEN <<FALSE, 0>>
        ELSE IF IsRegionalIndicator(cp1) /\ IsRegionalIndicator(cp2)
             THEN (IF state = 3 THEN <<TRUE, 0>> ELSE <<FALSE, 3>>)
        ELSE <<TRUE, 0>>

\* ------------------------------------------------- GraphemeWidthState
gsInit ==
    [firstCp |-> 0, lastCp |-> 0, nonEmojiWidth |-> 0, baseWidth |-> 0, count |-> 0,
     emojiBase |-> FALSE, keycap |-> FALSE, regionalIndicator |-> FALSE,
     skinTone |-> FALSE, zwj |-> FALSE, vs15 |-> FALSE, vs16 |-> FALSE]

gsReset(cp) ==
    [firstCp |-> cp, lastCp |-> cp, nonEmojiWidth |-> Bun__codepointWidth(cp),
     baseWidth |-> Bun__codepointWidth(cp), count |-> 1,
     emojiBase |-> Bun__isEmojiPresentation(cp), keycap |-> (cp = KEYCAP),
     regionalIndicator |-> IsRegionalIndicator(cp), skinTone |-> IsSkinTone(cp),
     zwj |-> (cp = ZWJ), vs15 |-> FALSE, vs16 |-> FALSE]

\* add() storing the 16-bit sum as it is, without the cap at 1023
gsAdd_m(gs, cp) ==
    LET w == Bun__codepointWidth(cp)
        newWidth == (gs.nonEmojiWidth + w) % 65536
    IN  [gs EXCEPT !.lastCp = cp,
                   !.count = IF gs.count < 255 THEN gs.count + 1 ELSE gs.count,
                   !.keycap = gs.keycap \/ (cp = KEYCAP),
                   !.regionalIndicator = gs.regionalIndicator \/ IsRegionalIndicator(cp),
                   !.skinTone = gs.skinTone \/ IsSkinTone(cp),
                   !.zwj = gs.zwj \/ (cp = ZWJ),
                   !.vs15 = gs.vs15 \/ (cp = VS15),
                   !.vs16 = gs.vs16 \/ (cp = VS16),
                   !.nonEmojiWidth = IF w > 0 THEN newWidth ELSE gs.nonEmojiWidth]

gsAdd(gs, cp) ==
    LET w == Bun__codepointWidth(cp)
        newWidth == (gs.nonEmojiWidth + w) % 65536
    IN  [gs EXCEPT !.lastCp = cp,
                   !.count = IF gs.count < 255 THEN gs.count + 1 ELSE gs.count,
                   !.keycap = gs.keycap \/ (cp = KEYCAP),
                   !.regionalIndicator = gs.regionalIndicator \/ IsRegionalIndicator(cp),
                   !.skinTone = gs.skinTone \/ IsSkinTone(cp),
                   !.zwj = gs.zwj \/ (cp = ZWJ),
                   !.vs15 = gs.vs15 \/ (cp = VS15),
                   !.vs16 = gs.vs16 \/ (cp = VS16),
                   !.nonEmojiWidth = IF w > 0
                                     THEN (IF newWidth < 1023 THEN newWidth ELSE 1023)
                                     ELSE gs.nonEmojiWidth]

\* width() without the rule for an emoji base with a skin tone or a ZWJ
gsWidth_m(gs) ==
    IF gs.count = 0 THEN 0
    ELSE IF gs.regionalIndicator /\ gs.count >= 2 THEN 2
    ELSE IF gs.keycap THEN 2
    ELSE IF gs.regionalIndicator THEN 1
    ELSE IF gs.vs15 \/ gs.vs16
         THEN (IF gs.baseWidth = 2 THEN 2
               ELSE IF gs.vs16
                    THEN (IF (gs.firstCp >= 48 /\ gs.firstCp <= 57) \/ gs.firstCp = 35
                              \/ gs.firstCp = 42 THEN 1
                          ELSE IF gs.firstCp < 128 THEN 1
                          ELSE 2)
               ELSE 1)
    ELSE gs.nonEmojiWidth % 256

gsWidth(gs) ==
    IF gs.count = 0 THEN 0
    ELSE IF gs.regionalIndicator /\ gs.count >= 2 THEN 2
    ELSE IF gs.keycap THEN 2
    ELSE IF gs.regionalIndicator THEN 1
    ELSE IF gs.emojiBase /\ (gs.skinTone \/ gs.zwj) THEN 2
    ELSE IF gs.vs15 \/ gs.vs16
         THEN (IF gs.baseWidth = 2 THEN 2
               ELSE IF gs.vs16
                    THEN (IF (gs.firstCp >= 48 /\ gs.firstCp <= 57) \/ gs.firstCp = 35
                              \/ gs.firstCp = 42 THEN 1
                          ELSE IF gs.firstCp < 128 THEN 1
                          ELSE 2)
               ELSE 1)
    ELSE gs.nonEmojiWidth % 256

\* ------------------------------------------------- SGR style tracking
sgrCloseCode(openCode) ==
    IF openCode \in {1, 2} THEN 22
    ELSE IF openCode = 3 THEN 23
    ELSE IF openCode = 4 THEN 24
    ELSE IF openCode \in {5, 6} THEN 25
    ELSE IF openCode = 7 THEN 27
    ELSE IF openCode = 8 THEN 28
    ELSE IF openCode = 9 THEN 29
    ELSE IF openCode \in (30..38) \cup (90..97) THEN 39
    ELSE IF openCode \in (40..48) \cup (100..107) THEN 49
    ELSE IF openCode = 53 THEN 55
    ELSE 0

isSgrEndCode(code) == code \in {0, 22, 23, 24, 25, 27, 28, 29, 39, 49, 55}

makeSgrCode(isC1, code) ==
    (IF isC1 THEN <<C1_CSI>> ELSE <<ESC, 91>>) \o NumStr(code) \o <<109>>

RECURSIVE JoinCodes(_)
JoinCodes(codes) ==
    IF Len(codes) = 0 THEN <<>>
    ELSE IF Len(codes) = 1 THEN NumStr(codes[1])
    ELSE NumStr(codes[1]) \o <<59>> \o JoinCodes(Tail(codes))

makeSgrCodeMulti(isC1, codes) ==
    (IF isC1 THEN <<C1_CSI>> ELSE <<ESC, 91>>) \o JoinCodes(codes) \o <<109>>

\* the full reset "\x1b[0m"
ResetStr == <<ESC, 91, 48, 109>>

\* SgrStyleState: entries is a sequence of [endCode, openCode]
applyReset(entries) == <<>>

\* applyEnd that removes nothing
applyEnd_m(entries, endCodeStr) == entries

applyEnd(entries, endCodeStr) == SelectSeq(entries, LAMBDA e : e.endCode # endCodeStr)

\* applyStart without the removal of the entry with the same end code
applyStart_m(entries, openCodeStr, endCodeStr) ==
    Append(entries, [endCode |-> endCodeStr, openCode |-> openCodeStr])

applyStart(entries, openCodeStr, endCodeStr) ==
    Append(SelectSeq(entries, LAMBDA e : e.endCode # endCodeStr),
           [endCode |-> endCodeStr, openCode |-> openCodeStr])

Chunk(kind, units, idx) == [k |-> kind, s |-> units, i |-> idx]

emitOpenCodes(entries) ==
    [j \in 1..Len(entries) |-> Chunk("open", entries[j].openCode, -1)]

\* emitCloseCodes in insertion order
emitCloseCodes_m(entries) ==
    [j \in 1..Len(entries) |-> Chunk("close", entries[j].endCode, -1)]

emitCloseCodes(entries) ==
    [j \in 1..Len(entries) |-> Chunk("close", entries[Len(entries) + 1 - j].endCode, -1)]

\* parseSgrParams over the units of u (the bytes between introducer and 'm')
RECURSIVE SgrParamsLoop(_, _, _, _, _)
SgrParamsLoop(u, j, out, current, hasDigit) ==
    IF j > Len(u) \/ ~((u[j] >= 48 /\ u[j] <= 57) \/ u[j] = 59 \/ u[j] = 58)
    THEN IF hasDigit \/ Len(out.data) = 0
         THEN (IF Len(out.data) >= kMax THEN [out EXCEPT !.overflow = TRUE]
               ELSE [out EXCEPT !.data = Append(out.data, current)])
         ELSE out
    ELSE IF u[j] >= 48 /\ u[j] <= 57
    THEN SgrParamsLoop(u, j + 1, out,
                       IF current < 100000 THEN current * 10 + (u[j] - 48) ELSE current, TRUE)
    ELSE LET o1 == IF u[j] = 58 THEN [out EXCEPT !.hasColon = TRUE] ELSE out
         IN  IF Len(o1.data) >= kMax THEN [o1 EXCEPT !.overflow = TRUE]
             ELSE SgrParamsLoop(u, j + 1,
                                [o1 EXCEPT !.data = Append(o1.data, IF hasDigit THEN current ELSE 0)],
                                0, FALSE)

parseSgrParams(u) ==
    SgrParamsLoop(u, 1, [data |-> <<>>, overflow |-> FALSE, hasColon |-> FALSE], 0, FALSE)

\* the parameter bytes of an SGR token (introducer and final 'm' removed)
SgrParamBytes(seq) ==
    IF seq[1] = C1_CSI THEN SubSeq(seq, 2, Len(seq) - 1) ELSE SubSeq(seq, 3, Len(seq) - 1)

RECURSIVE ApplySgrLoop(_, _, _, _)
ApplySgrLoop(entries, params, i, isC1) ==
    IF i > Len(params) THEN entries
    ELSE LET code == params[i]
             n == Len(params)
         IN  IF code = 0 THEN ApplySgrLoop(applyReset(entries), params, i + 1, isC1)
             ELSE IF code = 38 \/ code = 48
             THEN LET endStr == makeSgrCode(FALSE, IF code = 38 THEN 39 ELSE 49)
                  IN  IF i + 1 <= n /\ params[i + 1] = 5 /\ i + 2 <= n
                      THEN ApplySgrLoop(applyStart(entries,
                                            makeSgrCodeMulti(isC1, <<code, 5, params[i + 2]>>), endStr),
                                        params, i + 3, isC1)
                      ELSE IF i + 1 <= n /\ params[i + 1] = 2 /\ i + 4 <= n
                      THEN ApplySgrLoop(applyStart(entries,
                                            makeSgrCodeMulti(isC1, <<code, 2, params[i + 2],
                                                                     params[i + 3], params[i + 4]>>), endStr),
                                        params, i + 5, isC1)
                      ELSE ApplySgrLoop(applyStart(entries, makeSgrCode(isC1, code), endStr),
                                        params, i + 1, isC1)
             ELSE IF isSgrEndCode(code)
             THEN ApplySgrLoop(applyEnd(entries, makeSgrCode(FALSE, code)), params, i + 1, isC1)
             ELSE ApplySgrLoop(applyStart(entries, makeSgrCode(isC1, code),
                                   IF sgrCloseCode(code) # 0
                                   THEN makeSgrCode(FALSE, sgrCloseCode(code)) ELSE ResetStr),
                               params, i + 1, isC1)

\* applySgrToState(state, seqStart, seqEnd): seq is the whole token
\* applySgrToState with every sequence decomposed
applySgrToState_m(entries, seq) ==
    IF Len(parseSgrParams(SgrParamBytes(seq)).data) = 0 THEN applyReset(entries)
    ELSE ApplySgrLoop(entries, parseSgrParams(SgrParamBytes(seq)).data, 1, seq[1] = C1_CSI)

applySgrToState(entries, seq) ==
    LET isC1 == seq[1] = C1_CSI
        params == parseSgrParams(SgrParamBytes(seq))
    IN  IF params.hasColon \/ params.overflow
        THEN LET firstParam == IF Len(params.data) = 0 THEN 0 ELSE params.data[1]
                 closeCode == sgrCloseCode(firstParam)
             IN  applyStart(entries, seq,
                            IF closeCode # 0 THEN makeSgrCode(FALSE, closeCode) ELSE ResetStr)
        ELSE IF Len(params.data) = 0 THEN applyReset(entries)
        ELSE ApplySgrLoop(entries, params.data, 1, isC1)

RECURSIVE IncludeAfterEndLoop(_, _, _, _, _)
IncludeAfterEndLoop(params, entries, i, hasStartFragment, hasClosingEffect) ==
    IF i > Len(params) THEN hasClosingEffect /\ ~hasStartFragment
    ELSE LET code == params[i]
             n == Len(params)
         IN  IF code = 0
             THEN IncludeAfterEndLoop(params, entries, i + 1, hasStartFragment,
                                      hasClosingEffect \/ Len(entries) # 0)
             ELSE IF isSgrEndCode(code)
             THEN IncludeAfterEndLoop(params, entries, i + 1, hasStartFragment,
                      hasClosingEffect
                      \/ \E j \in 1..Len(entries) : entries[j].endCode = makeSgrCode(FALSE, code))
             ELSE IF code = 38 \/ code = 48
             THEN LET skip == IF i + 1 <= n /\ params[i + 1] = 5 /\ i + 2 <= n THEN 2
                              ELSE IF i + 1 <= n /\ params[i + 1] = 2 /\ i + 4 <= n THEN 4
                              ELSE 0
                  IN  IncludeAfterEndLoop(params, entries, i + skip + 1, TRUE, hasClosingEffect)
             ELSE IncludeAfterEndLoop(params, entries, i + 1, TRUE, hasClosingEffect)

shouldIncludeSgrAfterEnd(params, entries) ==
    IncludeAfterEndLoop(params.data, entries, 1, FALSE, FALSE)

\* ------------------------------------------------- ANSI tokenizer
NoMatch ==
    [ok |-> FALSE, after |-> 0, type |-> "Character", hlOpen |-> FALSE,
     code |-> <<>>, closePrefix |-> <<>>, terminator |-> <<>>]

\* the units d[from .. to) as a string
Span(d, from, to) == SubSeq(d, from + 1, to)

RECURSIVE CsiScan(_, _, _)
CsiScan(d, it, canon) ==
    IF it >= Len(d) THEN [ok |-> TRUE, after |-> Len(d), isSgr |-> FALSE]
    ELSE LET c == At(d, it)
         IN  IF c >= 64 /\ c <= 126
             THEN [ok |-> TRUE, after |-> it + 1, isSgr |-> (c = 109 /\ canon)]
             ELSE IF c >= 48 /\ c <= 63
             THEN CsiScan(d, it + 1, canon /\ ((c >= 48 /\ c <= 57) \/ c = 59 \/ c = 58))
             ELSE IF c >= 32 /\ c <= 47
             THEN CsiScan(d, it + 1, FALSE)
             ELSE [ok |-> TRUE, after |-> it, isSgr |-> FALSE]

\* parseCsi with a sequence that stops at an invalid interior byte reported
\* as no sequence
parseCsi_m(d, start) ==
    LET b == IF At(d, start) = ESC THEN start + 2 ELSE start + 1
        r == IF At(d, start) = ESC
             THEN (IF Len(d) - start < 2 \/ At(d, start + 1) # 91
                   THEN [ok |-> FALSE, after |-> 0, isSgr |-> FALSE]
                   ELSE CsiScan(d, start + 2, TRUE))
             ELSE IF At(d, start) = C1_CSI THEN CsiScan(d, start + 1, TRUE)
             ELSE [ok |-> FALSE, after |-> 0, isSgr |-> FALSE]
    IN  IF r.ok /\ r.after < Len(d)
           /\ ~(r.after > b /\ At(d, r.after - 1) >= 64 /\ At(d, r.after - 1) <= 126)
        THEN [ok |-> FALSE, after |-> 0, isSgr |-> FALSE]
        ELSE r

parseCsi(d, start) ==
    IF At(d, start) = ESC
    THEN (IF Len(d) - start < 2 \/ At(d, start + 1) # 91
          THEN [ok |-> FALSE, after |-> 0, isSgr |-> FALSE]
          ELSE CsiScan(d, start + 2, TRUE))
    ELSE IF At(d, start) = C1_CSI THEN CsiScan(d, start + 1, TRUE)
    ELSE [ok |-> FALSE, after |-> 0, isSgr |-> FALSE]

\* is there a string terminator ESC \ at index q
IsEscSt(d, q) == At(d, q) = ESC /\ q + 1 < Len(d) /\ At(d, q + 1) = 92

\* parseHyperlink with the 7-bit close prefix for both flavors
parseHyperlink_m(d, start) ==
    LET n == Len(d)
        isEscOsc == At(d, start) = ESC /\ n - start >= 4 /\ At(d, start + 1) = 93
                    /\ At(d, start + 2) = 56 /\ At(d, start + 3) = 59
        isC1Osc == At(d, start) = C1_OSC /\ n - start >= 3 /\ At(d, start + 1) = 56
                   /\ At(d, start + 2) = 59
        it == IF isEscOsc THEN start + 4 ELSE start + 3
        semis == {q \in it..(n - 1) : At(d, q) = 59}
        uriStart == SetMin(semis) + 1
        terms == {q \in uriStart..(n - 1) : At(d, q) = BEL \/ IsEscSt(d, q) \/ At(d, q) = C1_ST}
        t == SetMin(terms)
        closePrefix == <<ESC, 93, 56, 59, 59>>
    IN  IF ~isEscOsc /\ ~isC1Osc THEN NoMatch
        ELSE IF semis = {} THEN NoMatch
        ELSE IF terms = {} THEN NoMatch
        ELSE IF At(d, t) = BEL
        THEN [ok |-> TRUE, after |-> t + 1, type |-> "Hyperlink", hlOpen |-> (t > uriStart),
              code |-> Span(d, start, t + 1), closePrefix |-> closePrefix, terminator |-> <<BEL>>]
        ELSE IF IsEscSt(d, t)
        THEN [ok |-> TRUE, after |-> t + 2, type |-> "Hyperlink", hlOpen |-> (t > uriStart),
              code |-> Span(d, start, t + 2), closePrefix |-> closePrefix,
              terminator |-> <<ESC, 92>>]
        ELSE [ok |-> TRUE, after |-> t + 1, type |-> "Hyperlink", hlOpen |-> (t > uriStart),
              code |-> Span(d, start, t + 1), closePrefix |-> closePrefix,
              terminator |-> <<C1_ST>>]

parseHyperlink(d, start) ==
    LET n == Len(d)
        isEscOsc == At(d, start) = ESC /\ n - start >= 4 /\ At(d, start + 1) = 93
                    /\ At(d, start + 2) = 56 /\ At(d, start + 3) = 59
        isC1Osc == At(d, start) = C1_OSC /\ n - start >= 3 /\ At(d, start + 1) = 56
                   /\ At(d, start + 2) = 59
        it == IF isEscOsc THEN start + 4 ELSE start + 3
        semis == {q \in it..(n - 1) : At(d, q) = 59}
        uriStart == SetMin(semis) + 1
        terms == {q \in uriStart..(n - 1) : At(d, q) = BEL \/ IsEscSt(d, q) \/ At(d, q) = C1_ST}
        t == SetMin(terms)
        closePrefix == IF isEscOsc THEN <<ESC, 93, 56, 59, 59>> ELSE <<C1_OSC, 56, 59, 59>>
    IN  IF ~isEscOsc /\ ~isC1Osc THEN NoMatch
        ELSE IF semis = {} THEN NoMatch
        ELSE IF terms = {} THEN NoMatch
        ELSE IF At(d, t) = BEL
        THEN [ok |-> TRUE, after |-> t + 1, type |-> "Hyperlink", hlOpen |-> (t > uriStart),
              code |-> Span(d, start, t + 1), closePrefix |-> closePrefix, terminator |-> <<BEL>>]
        ELSE IF IsEscSt(d, t)
        THEN [ok |-> TRUE, after |-> t + 2, type |-> "Hyperlink", hlOpen |-> (t > uriStart),
              code |-> Span(d, start, t + 2), closePrefix |-> closePrefix,
              terminator |-> <<ESC, 92>>]
        ELSE [ok |-> TRUE, after |-> t + 1, type |-> "Hyperlink", hlOpen |-> (t > uriStart),
              code |-> Span(d, start, t + 1), closePrefix |-> closePrefix,
              terminator |-> <<C1_ST>>]

\* parseControlString with an unterminated control string consumed to the
\* end of the input
parseControlString_m(d, start) ==
    LET n == Len(d)
        c == At(d, start)
        next == At(d, start + 1)
        needST == IF c = ESC THEN n - start >= 2 /\ next \in {93, 80, 88, 94, 95}
                  ELSE c \in {C1_OSC, C1_DCS, C1_SOS, C1_PM, C1_APC}
    IN  IF c = ESC /\ n - start < 2 THEN -1
        ELSE IF c = ESC /\ next = 92 THEN start + 2
        ELSE IF c = C1_ST THEN start + 1
        ELSE IF ~needST THEN -1
        ELSE n

\* parseControlString: the end index, or -1 for nullptr
parseControlString(d, start) ==
    LET n == Len(d)
        c == At(d, start)
        next == At(d, start + 1)
        needST == IF c = ESC THEN n - start >= 2 /\ next \in {93, 80, 88, 94, 95}
                  ELSE c \in {C1_OSC, C1_DCS, C1_SOS, C1_PM, C1_APC}
        supportsBel == IF c = ESC THEN n - start >= 2 /\ next = 93 ELSE c = C1_OSC
        it == IF c = ESC THEN start + 2 ELSE start + 1
        terms == {q \in it..(n - 1) :
                     (supportsBel /\ At(d, q) = BEL) \/ IsEscSt(d, q) \/ At(d, q) = C1_ST}
        t == SetMin(terms)
    IN  IF c = ESC /\ n - start < 2 THEN -1
        ELSE IF c = ESC /\ next = 92 THEN start + 2
        ELSE IF c = C1_ST THEN start + 1
        ELSE IF ~needST THEN -1
        ELSE IF terms = {} THEN -1
        ELSE IF IsEscSt(d, t) THEN t + 2
        ELSE t + 1

\* tryParseAnsi with every CSI token that ends in 'm' classified as SGR
tryParseAnsi_m(d, start) ==
    LET c == At(d, start)
        hl == IF c = ESC \/ c = C1_OSC THEN parseHyperlink(d, start) ELSE NoMatch
        ctrlEnd == IF c \in {ESC, C1_OSC, C1_DCS, C1_SOS, C1_PM, C1_APC, C1_ST}
                   THEN parseControlString(d, start) ELSE -1
        csi == IF c = ESC \/ c = C1_CSI THEN parseCsi(d, start)
               ELSE [ok |-> FALSE, after |-> 0, isSgr |-> FALSE]
    IN  IF hl.ok THEN hl
        ELSE IF ctrlEnd # -1 THEN [NoMatch EXCEPT !.ok = TRUE, !.after = ctrlEnd, !.type = "Control"]
        ELSE IF csi.ok
        THEN [NoMatch EXCEPT !.ok = TRUE, !.after = csi.after,
                             !.type = IF At(d, csi.after - 1) = 109 THEN "Sgr" ELSE "Control"]
        ELSE NoMatch

tryParseAnsi(d, start) ==
    LET c == At(d, start)
        hl == IF c = ESC \/ c = C1_OSC THEN parseHyperlink(d, start) ELSE NoMatch
        ctrlEnd == IF c \in {ESC, C1_OSC, C1_DCS, C1_SOS, C1_PM, C1_APC, C1_ST}
                   THEN parseControlString(d, start) ELSE -1
        csi == IF c = ESC \/ c = C1_CSI THEN parseCsi(d, start)
               ELSE [ok |-> FALSE, after |-> 0, isSgr |-> FALSE]
    IN  IF hl.ok THEN hl
        ELSE IF ctrlEnd # -1 THEN [NoMatch EXCEPT !.ok = TRUE, !.after = ctrlEnd, !.type = "Control"]
        ELSE IF csi.ok
        THEN [NoMatch EXCEPT !.ok = TRUE, !.after = csi.after,
                             !.type = IF csi.isSgr THEN "Sgr" ELSE "Control"]
        ELSE NoMatch

\* ------------------------------------------------- ANSIHelpers.h scans
isEscapeCharacter(c) == c \in {ESC, C1_CSI, C1_OSC, C1_DCS, C1_SOS, C1_PM, C1_APC}

\* findEscapeCharacter(start, end): index of the first escape unit, -1 for nullptr
findEscapeCharacter(d, start, end) ==
    LET hits == {q \in start..(end - 1) : isEscapeCharacter(At(d, q)) \/ At(d, q) = C1_ST}
    IN  IF hits = {} THEN -1 ELSE SetMin(hits)

\* firstNonAsciiPrintable over d[start .. end): the length of the printable prefix
firstNonAsciiPrintable(d, start, end) ==
    LET bad == {q \in start..(end - 1) : At(d, q) < 32 \/ At(d, q) > 126}
    IN  IF bad = {} THEN end - start ELSE SetMin(bad) - start

\* decodeUTF16 (U16_NEXT) at index p: <<codepoint, length>>
decodeUTF16(d, p) ==
    LET c == At(d, p)
    IN  IF c >= 55296 /\ c <= 56319 /\ p + 1 < Len(d)
           /\ At(d, p + 1) >= 56320 /\ At(d, p + 1) <= 57343
        THEN <<65536 + (c - 55296) * 1024 + (At(d, p + 1) - 56320), 2>>
        ELSE <<c, 1>>

\* ------------------------------------------------- call state
VARIABLES
    input,              \* the input span (code units)
    startD, endD,       \* the indices as integer-valued doubles
    ellipsis,           \* the ellipsis string
    pc,                 \* "call", "emit", "loop", "run", "walkDone", "done"
    ret,                \* "none" while running; then "null", "empty" or "string"
    asciiPrefix,
    start, end, cutEndKnown, cutEndHint,
    needStartEllipsis, needEndEllipsis, ellipsisEndBudget,
    p, runEnd, position, include,
    prevVisCp, hasPrev, breakState, gs,
    activeStyles, activeHyperlink,
    pending, result, specZone, inSpecZone, sawCutEnd,
    uws                 \* the sockets of a loop: cork state, buffers, bytes written

vars ==
    <<input, startD, endD, ellipsis, pc, ret, asciiPrefix, start, end, cutEndKnown,
      cutEndHint, needStartEllipsis, needEndEllipsis, ellipsisEndBudget, p, runEnd,
      position, include, prevVisCp, hasPrev, breakState, gs, activeStyles,
      activeHyperlink, pending, result, specZone, inSpecZone, sawCutEnd, uws>>

\* Bun__visibleWidthExcludeANSI of the ellipsis (external; ellipses modelled
\* are single-cluster-per-unit strings without ANSI)
RECURSIVE Bun__visibleWidthExcludeANSI(_)
Bun__visibleWidthExcludeANSI(e) ==
    IF Len(e) = 0 THEN 0 ELSE Bun__codepointWidth(e[1]) + Bun__visibleWidthExcludeANSI(Tail(e))

NoHyperlink == [active |-> FALSE, code |-> <<>>, closePrefix |-> <<>>, terminator |-> <<>>]

\* the state of one call before sliceAnsiImpl runs
Call(inp, sD, eD, ell) ==
    [input |-> inp, startD |-> sD, endD |-> eD, ellipsis |-> ell, pc |-> "call",
     ret |-> "none", asciiPrefix |-> 0, start |-> 0, end |-> 0, cutEndKnown |-> FALSE,
     cutEndHint |-> FALSE, needStartEllipsis |-> FALSE, needEndEllipsis |-> FALSE,
     ellipsisEndBudget |-> 0, p |-> 0, runEnd |-> 0, position |-> 0, include |-> FALSE,
     prevVisCp |-> 0, hasPrev |-> FALSE, breakState |-> 0, gs |-> gsInit,
     activeStyles |-> <<>>, activeHyperlink |-> NoHyperlink, pending |-> <<>>,
     result |-> <<>>, specZone |-> <<>>, inSpecZone |-> FALSE, sawCutEnd |-> FALSE]

\* return paths
ReturnNull(w) == [w EXCEPT !.pc = "done", !.ret = "null", !.result = <<>>]
ReturnEmpty(w) == [w EXCEPT !.pc = "done", !.ret = "empty", !.result = <<>>]
ReturnChunks(w, chunks) == [w EXCEPT !.pc = "done", !.ret = "string", !.result = chunks]

EllipsisChunk(w) == Chunk("ellipsis", w.ellipsis, -1)

\* ------------------------------------------------- resolveSliceBounds
resolveSliceBounds(sD, eD, totalW) ==
    LET from0 == IF sD < 0 THEN totalW + sD ELSE sD
        to0 == IF eD < 0 THEN totalW + eD ELSE eD
        from == IF from0 < 0 THEN 0 ELSE from0
        to == IF to0 > totalW THEN totalW ELSE to0
    IN  IF ~(to > from)
        THEN [start |-> 0, end |-> 0, cutStart |-> FALSE, cutEnd |-> FALSE, empty |-> TRUE]
        ELSE [start |-> from, end |-> to, cutStart |-> from > 0, cutEnd |-> to < totalW,
              empty |-> FALSE]

\* ------------------------------------------------- break decision
\* the decision made at the head of processVisibleCp and of the pre-pass
\* loop: <<shouldBreak, breakState'>>
\* the break decision without the rule that joins LF to a preceding CR
BreakDecision_m(hasPrevious, prevCp, cp, state) ==
    IF ~hasPrevious THEN <<TRUE, state>>
    ELSE IF prevCp = CR \/ prevCp = LF \/ cp = CR \/ cp = LF THEN <<TRUE, 0>>
    ELSE Bun__graphemeBreak(prevCp, cp, state)

BreakDecision(hasPrevious, prevCp, cp, state) ==
    IF ~hasPrevious THEN <<TRUE, state>>
    ELSE IF prevCp = CR /\ cp = LF THEN <<FALSE, state>>
    ELSE IF prevCp = CR \/ prevCp = LF \/ cp = CR \/ cp = LF THEN <<TRUE, 0>>
    ELSE Bun__graphemeBreak(prevCp, cp, state)

\* ------------------------------------------------- computeTotalWidth
RECURSIVE TotalWidthLoop(_, _, _, _, _, _, _)
TotalWidthLoop(d, q, totalW, prevCp, hasPrevious, state, g) ==
    IF q >= Len(d) THEN (IF hasPrevious THEN totalW + gsWidth(g) ELSE totalW)
    ELSE LET tok == IF isEscapeCharacter(At(d, q)) \/ At(d, q) = C1_ST
                    THEN tryParseAnsi(d, q) ELSE NoMatch
             dec == decodeUTF16(d, q)
             brk == BreakDecision(hasPrevious, prevCp, dec[1], state)
         IN  IF tok.ok THEN TotalWidthLoop(d, tok.after, totalW, prevCp, hasPrevious, state, g)
             ELSE IF brk[1]
             THEN TotalWidthLoop(d, q + dec[2],
                                 IF hasPrevious THEN totalW + gsWidth(g) ELSE totalW,
                                 dec[1], TRUE, brk[2], gsReset(dec[1]))
             ELSE TotalWidthLoop(d, q + dec[2], totalW, dec[1], TRUE, brk[2], gsAdd(g, dec[1]))

computeTotalWidth(d, prefix) ==
    IF prefix > 0
    THEN TotalWidthLoop(d, prefix, prefix - 1, At(d, prefix - 1), TRUE, 0,
                        gsReset(At(d, prefix - 1)))
    ELSE TotalWidthLoop(d, 0, 0, 0, FALSE, 0, gsInit)

\* ------------------------------------------------- sliceAnsiImpl
\* the printable-ASCII prefix path: a direct substring
AsciiPrefixPath(w, wholeStringAscii, prefix) ==
    LET n == Len(w.input)
        ellipsisWidth == Bun__visibleWidthExcludeANSI(w.ellipsis)
        totalW == IF wholeStringAscii THEN n ELSE prefix
        b == resolveSliceBounds(w.startD, w.endD, totalW)
        cutEnd == IF wholeStringAscii THEN b.cutEnd ELSE TRUE
        doStart == b.cutStart /\ ellipsisWidth < (b.end - b.start)
        st == IF doStart THEN b.start + ellipsisWidth ELSE b.start
        doEnd == cutEnd /\ ellipsisWidth < (b.end - st)
        en == IF doEnd THEN b.end - ellipsisWidth ELSE b.end
        content == Chunk("text", Span(w.input, st, en), st)
    IN  IF b.empty THEN ReturnEmpty(w)
        ELSE IF ~b.cutStart /\ ~cutEnd THEN ReturnNull(w)
        ELSE IF ellipsisWidth > 0
        THEN (IF ~doStart /\ ~doEnd THEN ReturnChunks(w, <<EllipsisChunk(w)>>)
              ELSE IF doStart /\ doEnd
              THEN ReturnChunks(w, <<EllipsisChunk(w), content, EllipsisChunk(w)>>)
              ELSE IF doStart THEN ReturnChunks(w, <<EllipsisChunk(w), content>>)
              ELSE ReturnChunks(w, <<content, EllipsisChunk(w)>>))
        ELSE ReturnChunks(w, <<Chunk("text", Span(w.input, b.start, b.end), b.start)>>)

\* dispatch to the streaming walk: bounds for emitSliceStreaming
StreamingDispatch(w, prefix) ==
    LET n == Len(w.input)
        totalW == computeTotalWidth(w.input, prefix)
        b == resolveSliceBounds(w.startD, w.endD, totalW)
    IN  IF w.startD >= 0 /\ ~(w.endD < 0)
        THEN (IF w.startD = Infinity \/ w.startD > n * 2 THEN ReturnEmpty(w)
              ELSE IF w.endD = Infinity \/ w.endD > n * 2
              THEN [w EXCEPT !.pc = "emit", !.asciiPrefix = prefix, !.start = w.startD,
                             !.end = SIZE_MAX, !.cutEndKnown = TRUE, !.cutEndHint = FALSE]
              ELSE IF w.endD <= w.startD THEN ReturnEmpty(w)
              ELSE [w EXCEPT !.pc = "emit", !.asciiPrefix = prefix, !.start = w.startD,
                             !.end = w.endD, !.cutEndKnown = FALSE, !.cutEndHint = FALSE])
        ELSE IF b.empty THEN ReturnEmpty(w)
        ELSE [w EXCEPT !.pc = "emit", !.asciiPrefix = prefix, !.start = b.start,
                       !.end = b.end, !.cutEndKnown = TRUE, !.cutEndHint = b.cutEnd]

\* IsIdentityCall taken only for an input that is printable ASCII throughout
IsIdentityCall_m(w) ==
    /\ w.startD = 0 /\ w.endD = Infinity /\ Bun__visibleWidthExcludeANSI(w.ellipsis) = 0
    /\ firstNonAsciiPrintable(w.input, 0, Len(w.input)) = Len(w.input)

\* the identity (no-op) fast path test
IsIdentityCall(w) ==
    w.startD = 0 /\ w.endD = Infinity /\ Bun__visibleWidthExcludeANSI(w.ellipsis) = 0

\* the bounded scan for the printable-ASCII prefix
PrefixScanLen(w) ==
    IF w.startD >= 0 /\ w.endD >= 0 /\ w.endD # Infinity /\ w.endD + 2 < Len(w.input)
    THEN w.endD + 2 ELSE Len(w.input)

AsciiPrefixOf(w) == firstNonAsciiPrintable(w.input, 0, PrefixScanLen(w))

sliceAnsiImpl(w) ==
    LET n == Len(w.input)
        prefixScanLen == PrefixScanLen(w)
        prefix == AsciiPrefixOf(w)
        wholeStringAscii == prefixScanLen = n /\ prefix = n
        sliceInsidePrefix == w.startD >= 0 /\ w.endD >= 0 /\ w.endD < prefix
    IN  IF n = 0 THEN ReturnEmpty(w)
        ELSE IF IsIdentityCall(w) THEN ReturnNull(w)
        ELSE IF wholeStringAscii \/ sliceInsidePrefix
        THEN AsciiPrefixPath(w, wholeStringAscii, prefix)
        ELSE StreamingDispatch(w, prefix)

\* ------------------------------------------------- emitSliceStreaming
endUnbounded(w) == w.end = SIZE_MAX

specEnd(w) == IF w.ellipsisEndBudget > 0 THEN w.end + w.ellipsisEndBudget ELSE w.end

\* the ASCII prefix fast-forward, entering the main walk
FastForward(w) ==
    [w EXCEPT !.pc = "loop",
              !.position = Min2(w.start, IF w.asciiPrefix > 0 THEN w.asciiPrefix - 1 ELSE 0),
              !.p = Min2(w.start, IF w.asciiPrefix > 0 THEN w.asciiPrefix - 1 ELSE 0)]

\* ResolveEndEllipsis without the return for a range too small
ResolveEndEllipsis_m(w, ellipsisWidth, cutStartForEllipsis) ==
    IF w.cutEndKnown /\ w.cutEndHint /\ ellipsisWidth < (w.end - w.start)
    THEN FastForward([w EXCEPT !.needEndEllipsis = TRUE, !.end = w.end - ellipsisWidth])
    ELSE IF ~w.cutEndKnown /\ ~endUnbounded(w) /\ ellipsisWidth < (w.end - w.start)
    THEN FastForward([w EXCEPT !.needEndEllipsis = TRUE, !.ellipsisEndBudget = ellipsisWidth,
                               !.end = w.end - ellipsisWidth])
    ELSE FastForward(w)

\* the end-ellipsis budget: end cut known up front, or detected lazily
ResolveEndEllipsis(w, ellipsisWidth, cutStartForEllipsis) ==
    IF w.cutEndKnown /\ w.cutEndHint /\ ellipsisWidth < (w.end - w.start)
    THEN FastForward([w EXCEPT !.needEndEllipsis = TRUE, !.end = w.end - ellipsisWidth])
    ELSE IF ~w.cutEndKnown /\ ~endUnbounded(w) /\ ellipsisWidth < (w.end - w.start)
    THEN FastForward([w EXCEPT !.needEndEllipsis = TRUE, !.ellipsisEndBudget = ellipsisWidth,
                               !.end = w.end - ellipsisWidth])
    ELSE IF w.cutEndKnown /\ (cutStartForEllipsis \/ w.cutEndHint) /\ ~w.needStartEllipsis
    THEN ReturnChunks(w, <<EllipsisChunk(w)>>)
    ELSE FastForward(w)

\* the start-ellipsis budget
ResolveStartEllipsis(w, ellipsisWidth) ==
    IF w.start > 0
       /\ ellipsisWidth < (IF endUnbounded(w) THEN SIZE_MAX - w.start ELSE w.end - w.start)
    THEN ResolveEndEllipsis([w EXCEPT !.needStartEllipsis = TRUE,
                                      !.start = w.start + ellipsisWidth],
                            ellipsisWidth, TRUE)
    ELSE ResolveEndEllipsis(w, ellipsisWidth, w.start > 0)

\* ellipsis budget resolution and the ASCII prefix fast-forward
emitSliceStreamingEnter(w) ==
    IF Bun__visibleWidthExcludeANSI(w.ellipsis) > 0
    THEN ResolveStartEllipsis(w, Bun__visibleWidthExcludeANSI(w.ellipsis))
    ELSE FastForward(w)

\* one pending entry: the token's span, type and captured hyperlink state
PendingEntry(w, tok) ==
    [start |-> w.p, end |-> tok.after, type |-> tok.type, hlOpen |-> tok.hlOpen,
     code |-> tok.code, closePrefix |-> tok.closePrefix, terminator |-> tok.terminator]

AnsiChunk(w, pa) ==
    Chunk(IF pa.type = "Hyperlink" THEN (IF pa.hlOpen THEN "HlOpen" ELSE "HlClose") ELSE pa.type,
          Span(w.input, pa.start, pa.end), pa.start)

\* the filter with every decomposable SGR sequence let through
PassesCloseFilter_m(params, entries) == ~params.overflow /\ ~params.hasColon

\* the pending-close filter for an SGR token seq
PassesCloseFilter(params, entries) ==
    ~params.overflow /\ ~params.hasColon /\ shouldIncludeSgrAfterEnd(params, entries)

\* HyperlinkAfter with the strings of an open stored but the slot not set active
HyperlinkAfter_m(slot, pa) ==
    IF pa.hlOpen
    THEN [slot EXCEPT !.code = pa.code, !.closePrefix = pa.closePrefix,
                      !.terminator = pa.terminator]
    ELSE [slot EXCEPT !.active = FALSE]

\* hyperlink slot after a hyperlink token
HyperlinkAfter(slot, pa) ==
    IF pa.hlOpen
    THEN [active |-> TRUE, code |-> pa.code, closePrefix |-> pa.closePrefix,
          terminator |-> pa.terminator]
    ELSE [slot EXCEPT !.active = FALSE]

\* FlushOne with the SGR sequence emitted but not applied to the tracker
FlushOne_m(w, pa, filterCloseOnly) ==
    IF pa.type = "Sgr"
    THEN (IF filterCloseOnly
             /\ ~PassesCloseFilter(parseSgrParams(SgrParamBytes(Span(w.input, pa.start, pa.end))),
                                   w.activeStyles)
          THEN w
          ELSE [w EXCEPT !.result = Append(w.result, AnsiChunk(w, pa))])
    ELSE IF pa.type = "Hyperlink"
    THEN (IF filterCloseOnly /\ (pa.hlOpen \/ ~w.activeHyperlink.active)
          THEN w
          ELSE [w EXCEPT !.activeHyperlink = HyperlinkAfter(w.activeHyperlink, pa),
                         !.result = Append(w.result, AnsiChunk(w, pa))])
    ELSE IF pa.type = "Control" /\ ~filterCloseOnly
    THEN [w EXCEPT !.result = Append(w.result, AnsiChunk(w, pa))]
    ELSE w

\* one iteration of the loop of flushPending, over the entry pa
FlushOne(w, pa, filterCloseOnly) ==
    IF pa.type = "Sgr"
    THEN (IF filterCloseOnly
             /\ ~PassesCloseFilter(parseSgrParams(SgrParamBytes(Span(w.input, pa.start, pa.end))),
                                   w.activeStyles)
          THEN w
          ELSE [w EXCEPT !.activeStyles =
                             applySgrToState(w.activeStyles, Span(w.input, pa.start, pa.end)),
                         !.result = Append(w.result, AnsiChunk(w, pa))])
    ELSE IF pa.type = "Hyperlink"
    THEN (IF filterCloseOnly /\ (pa.hlOpen \/ ~w.activeHyperlink.active)
          THEN w
          ELSE [w EXCEPT !.activeHyperlink = HyperlinkAfter(w.activeHyperlink, pa),
                         !.result = Append(w.result, AnsiChunk(w, pa))])
    ELSE IF pa.type = "Control" /\ ~filterCloseOnly
    THEN [w EXCEPT !.result = Append(w.result, AnsiChunk(w, pa))]
    ELSE w

RECURSIVE FlushLoop(_, _, _)
FlushLoop(w, j, filterCloseOnly) ==
    IF j > Len(w.pending) THEN [w EXCEPT !.pending = <<>>]
    ELSE FlushLoop(FlushOne(w, w.pending[j], filterCloseOnly), j + 1, filterCloseOnly)

flushPending(w, filterCloseOnly) == FlushLoop(w, 1, filterCloseOnly)

\* EntryChunks without the opens of the styles active at window entry
EntryChunks_m(w) ==
    (IF w.needStartEllipsis THEN <<Chunk("startEllipsis", w.ellipsis, -1)>> ELSE <<>>)
    \o (IF w.activeHyperlink.active
        THEN <<Chunk("HlReplay", w.activeHyperlink.code, -1)>> ELSE <<>>)

\* what window entry appends: style opens, start ellipsis, hyperlink replay
EntryChunks(w) ==
    emitOpenCodes(w.activeStyles)
    \o (IF w.needStartEllipsis THEN <<Chunk("startEllipsis", w.ellipsis, -1)>> ELSE <<>>)
    \o (IF w.activeHyperlink.active
        THEN <<Chunk("HlReplay", w.activeHyperlink.code, -1)>> ELSE <<>>)

\* EnterWindow with the start ellipsis put before the style opens
EnterWindow_m(w) ==
    [w EXCEPT !.include = TRUE,
              !.result = w.result
                  \o (IF w.needStartEllipsis THEN <<Chunk("startEllipsis", w.ellipsis, -1)>>
                      ELSE <<>>)
                  \o emitOpenCodes(w.activeStyles)
                  \o (IF w.activeHyperlink.active
                      THEN <<Chunk("HlReplay", w.activeHyperlink.code, -1)>> ELSE <<>>)]

EnterWindow(w) == [w EXCEPT !.include = TRUE, !.result = w.result \o EntryChunks(w)]

\* MaybeEnterWindow with the window entered only past start
MaybeEnterWindow_m(w) == IF ~w.include /\ w.position > w.start THEN EnterWindow(w) ELSE w

\* the include transition, taken when position has reached start
MaybeEnterWindow(w) == IF ~w.include /\ w.position >= w.start THEN EnterWindow(w) ELSE w

\* the chunk of n units copied from the input at p
CopyChunk(w, kind, n) == Chunk(kind, Span(w.input, w.p, w.p + n), w.p)

\* append the codepoint at p to the main buffer or to the speculative zone
EmitCpBreak(w, charLen) ==
    IF ~endUnbounded(w) /\ w.position >= w.end /\ w.ellipsisEndBudget > 0
    THEN [w EXCEPT !.inSpecZone = TRUE,
                   !.specZone = Append(w.specZone, CopyChunk(w, "cp", charLen))]
    ELSE [w EXCEPT !.result = Append(w.result, CopyChunk(w, "cp", charLen))]

\* EmitCpJoin with a continuation always appended to the main buffer
EmitCpJoin_m(w, charLen) ==
    [w EXCEPT !.result = Append(w.result, CopyChunk(w, "cp", charLen))]

EmitCpJoin(w, charLen) ==
    IF w.inSpecZone
    THEN [w EXCEPT !.specZone = Append(w.specZone, CopyChunk(w, "cp", charLen))]
    ELSE [w EXCEPT !.result = Append(w.result, CopyChunk(w, "cp", charLen))]

\* the tail of processVisibleCp: grapheme state and cursor
AdvanceCp(w, g, cp, charLen) ==
    [w EXCEPT !.gs = g, !.prevVisCp = cp, !.hasPrev = TRUE, !.p = w.p + charLen]

\* the cut at a break: position has reached specEnd
CutAtBreak(w) ==
    [flushPending([w EXCEPT !.sawCutEnd = TRUE], TRUE) EXCEPT !.pc = "walkDone"]

\* the break branch once the window test is done
BreakEmit(w, cp, charLen) ==
    IF w.include
    THEN AdvanceCp(EmitCpBreak(flushPending(w, FALSE), charLen), gsReset(cp), cp, charLen)
    ELSE AdvanceCp([w EXCEPT !.pending = <<>>], gsReset(cp), cp, charLen)

\* BreakBranch with the cut taken one column early
BreakBranch_m(w, cp, charLen) ==
    IF ~endUnbounded(w) /\ w.position + 1 >= specEnd(w) THEN CutAtBreak(w)
    ELSE BreakEmit(MaybeEnterWindow(w), cp, charLen)

\* the break branch, with position already advanced past the finished cluster
BreakBranch(w, cp, charLen) ==
    IF ~endUnbounded(w) /\ w.position >= specEnd(w) THEN CutAtBreak(w)
    ELSE BreakEmit(MaybeEnterWindow(w), cp, charLen)

\* JoinBranch with position moved on by one column at each joined codepoint
JoinBranch_m(w, cp, charLen) ==
    IF w.include
    THEN AdvanceCp(EmitCpJoin(flushPending([w EXCEPT !.position = w.position + 1], FALSE), charLen),
                   gsAdd(w.gs, cp), cp, charLen)
    ELSE AdvanceCp([w EXCEPT !.pending = <<>>, !.position = w.position + 1],
                   gsAdd(w.gs, cp), cp, charLen)

\* the join branch: a continuation of the current cluster
JoinBranch(w, cp, charLen) ==
    IF w.include
    THEN AdvanceCp(EmitCpJoin(flushPending(w, FALSE), charLen), gsAdd(w.gs, cp), cp, charLen)
    ELSE AdvanceCp([w EXCEPT !.pending = <<>>], gsAdd(w.gs, cp), cp, charLen)

\* processVisibleCp after the break decision brk; pc = "walkDone" stands
\* for the return value false
VisibleCpDecided(w, cp, charLen, brk) ==
    IF brk[1]
    THEN BreakBranch([w EXCEPT !.breakState = brk[2],
                               !.position = IF w.hasPrev THEN w.position + gsWidth(w.gs)
                                            ELSE w.position],
                     cp, charLen)
    ELSE JoinBranch([w EXCEPT !.breakState = brk[2]], cp, charLen)

processVisibleCp(w, cp, charLen) ==
    VisibleCpDecided(w, cp, charLen, BreakDecision(w.hasPrev, w.prevVisCp, cp, w.breakState))

\* bulk block, last step: skip any remaining pre-include units
BulkRest(w, bulkN) == [w EXCEPT !.p = w.p + bulkN, !.position = w.position + bulkN]

\* bulk block: after emitN units were appended
BulkAfterEmit(w, bulkN) ==
    IF ~endUnbounded(w) /\ w.position >= specEnd(w)
    THEN [w EXCEPT !.sawCutEnd = TRUE, !.pc = "walkDone"]
    ELSE BulkRest(w, bulkN)

\* bulk block: append emitN units, split at the speculative zone boundary
BulkAppend(w, emitN) ==
    IF emitN = 0 THEN w
    ELSE IF w.ellipsisEndBudget > 0 /\ w.position < w.end /\ ~endUnbounded(w)
    THEN [w EXCEPT !.result = Append(w.result,
                                     CopyChunk(w, "text", Min2(w.end - w.position, emitN))),
                   !.inSpecZone = w.inSpecZone \/ emitN > w.end - w.position,
                   !.specZone = IF emitN > w.end - w.position
                                THEN Append(w.specZone,
                                            Chunk("text",
                                                  Span(w.input, w.p + (w.end - w.position), w.p + emitN),
                                                  w.p + (w.end - w.position)))
                                ELSE w.specZone,
                   !.p = w.p + emitN, !.position = w.position + emitN]
    ELSE IF w.inSpecZone \/ (~endUnbounded(w) /\ w.position >= w.end)
    THEN [w EXCEPT !.inSpecZone = TRUE,
                   !.specZone = Append(w.specZone, CopyChunk(w, "text", emitN)),
                   !.p = w.p + emitN, !.position = w.position + emitN]
    ELSE [w EXCEPT !.result = Append(w.result, CopyChunk(w, "text", emitN)),
                   !.p = w.p + emitN, !.position = w.position + emitN]

\* how many units the bulk block can emit before specEnd
BulkEmitN(w, bulkN) ==
    IF endUnbounded(w) THEN bulkN
    ELSE Min2(IF specEnd(w) > w.position THEN specEnd(w) - w.position ELSE 0, bulkN)

\* bulk block inside the window: flush pending, then emit
BulkEmit(w, bulkN) ==
    BulkAfterEmit(BulkAppend(w, BulkEmitN(w, bulkN)), bulkN - BulkEmitN(w, bulkN))

\* bulk block: the include transition and the emission
BulkInclude(w, bulkN) ==
    IF bulkN > 0 /\ ~w.include /\ w.position >= w.start
    THEN BulkEmit(flushPending(EnterWindow(w), FALSE), bulkN)
    ELSE IF bulkN > 0 /\ w.include THEN BulkEmit(flushPending(w, FALSE), bulkN)
    ELSE BulkRest(w, bulkN)

\* bulk block: advance through the columns before start
BulkSkip(w, bulkN, skipN) ==
    BulkInclude([w EXCEPT !.p = w.p + skipN, !.position = w.position + skipN], bulkN - skipN)

BulkPreInclude(w, bulkN) ==
    IF ~w.include /\ w.position < w.start
    THEN BulkSkip(w, bulkN, Min2(w.start - w.position, bulkN))
    ELSE BulkInclude(w, bulkN)

\* bulk block, with the pending cluster finalized
BulkFinalized(w, bulkN) ==
    IF ~endUnbounded(w) /\ w.position >= specEnd(w) THEN CutAtBreak(w)
    ELSE BulkPreInclude(w, bulkN)

\* the bulk block of one loop iteration, for bulkN > 0 printable-ASCII units
BulkAscii(w, bulkN) ==
    IF w.hasPrev
    THEN BulkFinalized([w EXCEPT !.position = w.position + gsWidth(w.gs), !.hasPrev = FALSE],
                       bulkN)
    ELSE BulkPreInclude(w, bulkN)

\* the scan horizon of one iteration
ScanEnd(w) ==
    IF endUnbounded(w) THEN Len(w.input)
    ELSE IF Len(w.input) - w.p
            <= (IF specEnd(w) > w.position THEN specEnd(w) - w.position ELSE 0) + 4
    THEN Len(w.input)
    ELSE w.p + (IF specEnd(w) > w.position THEN specEnd(w) - w.position ELSE 0) + 4

\* the end of the visible run: the next escape unit, or the scan horizon
RunEndOf(w, nextEsc, scanEnd) == IF nextEsc # -1 THEN nextEsc ELSE scanEnd

\* the bulk block for a printable prefix of asciiLen units, then the
\* per-codepoint loop up to rEnd
LoopBulk(w, rEnd, asciiLen) ==
    IF asciiLen > 1 THEN BulkAscii([w EXCEPT !.pc = "run", !.runEnd = rEnd], asciiLen - 1)
    ELSE [w EXCEPT !.pc = "run", !.runEnd = rEnd]

LoopRun(w, rEnd) == LoopBulk(w, rEnd, firstNonAsciiPrintable(w.input, w.p, rEnd))

\* the head of one iteration of the main walk: scan horizon, escape scan,
\* bulk block; leaves the per-codepoint loop to run up to runEnd
LoopHead(w) ==
    LoopRun(w, RunEndOf(w, findEscapeCharacter(w.input, w.p, ScanEnd(w)), ScanEnd(w)))

\* one iteration of the per-codepoint loop
RunCp(w) == processVisibleCp(w, decodeUTF16(w.input, w.p)[1], decodeUTF16(w.input, w.p)[2])


\* TokenAt with a CSI that the input ends in before a final byte taken as
\* no token
TokenAt_m(w) ==
    LET t == IF isEscapeCharacter(At(w.input, w.p)) \/ At(w.input, w.p) = C1_ST
             THEN tryParseAnsi(w.input, w.p) ELSE NoMatch
        b == IF At(w.input, w.p) = C1_CSI THEN w.p + 1 ELSE w.p + 2
    IN  IF /\ t.ok /\ t.type = "Control" /\ t.after = Len(w.input)
           /\ \/ At(w.input, w.p) = C1_CSI
              \/ At(w.input, w.p) = ESC /\ w.p + 1 < Len(w.input) /\ At(w.input, w.p + 1) = 91
           /\ \/ t.after <= b
              \/ ~(At(w.input, t.after - 1) >= 64 /\ At(w.input, t.after - 1) <= 126)
        THEN NoMatch
        ELSE t

\* the token at p, when p is at an escape unit that parses
TokenAt(w) ==
    IF isEscapeCharacter(At(w.input, w.p)) \/ At(w.input, w.p) = C1_ST
    THEN tryParseAnsi(w.input, w.p) ELSE NoMatch

\* ApplyToken with the cursor left at the start of the token
ApplyToken_m(w, tok) ==
    IF tok.type = "Sgr"
    THEN [w EXCEPT !.activeStyles =
                       applySgrToState(w.activeStyles, Span(w.input, w.p, tok.after)),
                   !.pc = "loop"]
    ELSE IF tok.type = "Hyperlink"
    THEN [w EXCEPT !.activeHyperlink = HyperlinkAfter(w.activeHyperlink, tok), !.pc = "loop"]
    ELSE [w EXCEPT !.pc = "loop"]

\* a token before the window: applied to the trackers at once
ApplyToken(w, tok) ==
    IF tok.type = "Sgr"
    THEN [w EXCEPT !.activeStyles =
                       applySgrToState(w.activeStyles, Span(w.input, w.p, tok.after)),
                   !.p = tok.after, !.pc = "loop"]
    ELSE IF tok.type = "Hyperlink"
    THEN [w EXCEPT !.activeHyperlink = HyperlinkAfter(w.activeHyperlink, tok),
                   !.p = tok.after, !.pc = "loop"]
    ELSE [w EXCEPT !.p = tok.after, !.pc = "loop"]

\* a recognized token: applied at once before the window, buffered inside
RouteToken(w, tok) ==
    IF ~w.include THEN ApplyToken(w, tok)
    ELSE [w EXCEPT !.pending = Append(w.pending, PendingEntry(w, tok)),
                   !.p = tok.after, !.pc = "loop"]

\* a unit the escape scan stopped at that is no token: one visible codepoint
BackToLoop(w) == IF w.pc = "walkDone" THEN w ELSE [w EXCEPT !.pc = "loop"]

FalsePositiveCp(w) == BackToLoop(RunCp(w))

\* ExitChunks with the end ellipsis put before the hyperlink close
ExitChunks_m(w) ==
    (IF w.needEndEllipsis THEN <<Chunk("endEllipsis", w.ellipsis, -1)>> ELSE <<>>)
    \o (IF w.activeHyperlink.active
        THEN <<Chunk("HlSynthClose", w.activeHyperlink.closePrefix \o w.activeHyperlink.terminator, -1)>>
        ELSE <<>>)
    \o emitCloseCodes(w.activeStyles)

\* after the walk: close hyperlink, end ellipsis, style closes
ExitChunks(w) ==
    (IF w.activeHyperlink.active
     THEN <<Chunk("HlSynthClose", w.activeHyperlink.closePrefix \o w.activeHyperlink.terminator, -1)>>
     ELSE <<>>)
    \o (IF w.needEndEllipsis THEN <<Chunk("endEllipsis", w.ellipsis, -1)>> ELSE <<>>)
    \o emitCloseCodes(w.activeStyles)

CloseWindow(w) == [w EXCEPT !.pc = "done", !.ret = "string", !.result = w.result \o ExitChunks(w)]

\* ResolveLazyCut with the speculative zone kept and the end ellipsis still emitted
ResolveLazyCut_m(w) ==
    IF w.ellipsisEndBudget > 0 /\ ~w.sawCutEnd
    THEN CloseWindow([w EXCEPT !.result = w.result \o w.specZone])
    ELSE CloseWindow(w)

\* resolve the lazy cut: no cut seen, so the speculative zone is kept
ResolveLazyCut(w) ==
    IF w.ellipsisEndBudget > 0 /\ ~w.sawCutEnd
    THEN CloseWindow([w EXCEPT !.result = w.result \o w.specZone, !.needEndEllipsis = FALSE])
    ELSE CloseWindow(w)

\* WalkReturn with the window closed even when it was never entered
WalkReturn_m(w) == ResolveLazyCut(w)

WalkReturn(w) ==
    IF ~w.include THEN [w EXCEPT !.pc = "done", !.ret = "empty", !.result = <<>>]
    ELSE ResolveLazyCut(w)

\* trailing ANSI at natural end of input
FlushTrailing(w) ==
    IF w.include
    THEN WalkReturn(flushPending(w, ~endUnbounded(w) /\ w.position >= specEnd(w)))
    ELSE WalkReturn(w)

\* after the walk: finalize the last cluster, flush trailing ANSI, resolve
\* the lazy cut, close hyperlink and styles
WalkDone(w) ==
    IF w.sawCutEnd THEN WalkReturn(w)
    ELSE IF w.hasPrev THEN FlushTrailing([w EXCEPT !.position = w.position + gsWidth(w.gs)])
    ELSE FlushTrailing(w)

\* ------------------------------------------------- AsyncSocket (bun-uws)
\* The sockets of one loop.  All sockets are open.  LoopData, BackPressure
\* and us_socket_write are outside the sources; they are given here as
\* AsyncSocket.h uses them.  The cork buffer is scaled down to
\* MaxCorkBuffer bytes; corkOffset is the length of corkBuffer.
MaxSockets == 2
MaxCorkBuffer == 2
MaxPayload == 2
MaxAccepted == 3

Sockets == 1..MaxSockets

\* no socket
nullptr == 0

CORK_BUFFER_SIZE == MaxCorkBuffer

\* buffer: the per-socket backpressure; written: the bytes us_socket_write
\* took, per socket; accepted: the number of payload bytes write() has
\* accepted, per socket; call: the last call made and the cork state it
\* found
LoopDataInit ==
    [corkedSocket |-> nullptr, corkBuffer |-> <<>>,
     buffer |-> [s \in Sockets |-> <<>>],
     written |-> [s \in Sockets |-> <<>>],
     accepted |-> [s \in Sockets |-> 0],
     call |-> [op |-> "none", s |-> nullptr, corkedBefore |-> nullptr, offsetBefore |-> 0]]

getCorkOffset(u) == Len(u.corkBuffer)

isCorkedWith(u, s) == u.corkedSocket = s

setCorkedSocket(u, s) == [u EXCEPT !.corkedSocket = s]

cleanCorkedSocket(u) == [u EXCEPT !.corkedSocket = nullptr, !.corkBuffer = <<>>]

\* BackPressure::erase(n)
erase(b, n) == SubSeq(b, n + 1, Len(b))

\* us_socket_write: the socket takes any number of the bytes offered
us_socket_write(u, s, data) ==
    {[u |-> [u EXCEPT !.written[s] = @ \o SubSeq(data, 1, k)], written |-> k] :
        k \in 0..Len(data)}

\* the results of a call: the state it leaves and the pair it returns
Returns(u, n, failed) == [u |-> u, n |-> n, failed |-> failed]

RECURSIVE write(_, _, _, _)
RECURSIVE writeChunk(_, _, _, _)
RECURSIVE uncork(_, _, _, _)

\* write(): the drain of the per-socket buffer that precedes the chunk
write(u, s, src, optionally) ==
    IF Len(u.buffer[s]) > 0
    THEN UNION {IF o.written < Len(u.buffer[s])
                THEN (IF optionally
                      THEN {Returns([o.u EXCEPT !.buffer[s] = erase(@, o.written)], 0, TRUE)}
                      ELSE {Returns([o.u EXCEPT !.buffer[s] = erase(@, o.written) \o src],
                                    Len(src), TRUE)})
                ELSE writeChunk([o.u EXCEPT !.buffer[s] = <<>>], s, src, optionally) :
                    o \in us_socket_write(u, s, u.buffer[s])}
    ELSE writeChunk(u, s, src, optionally)

\* write(): the chunk itself, to the cork buffer, or to the socket with
\* the rest to the per-socket buffer
writeChunk(u, s, src, optionally) ==
    IF Len(src) = 0 THEN {Returns(u, 0, FALSE)}
    ELSE IF isCorkedWith(u, s)
    THEN (IF CORK_BUFFER_SIZE - getCorkOffset(u) >= Len(src)
          THEN {Returns([u EXCEPT !.corkBuffer = @ \o src], Len(src), FALSE)}
          ELSE uncork(u, s, src, optionally))
    ELSE {IF o.written < Len(src)
          THEN (IF optionally THEN Returns(o.u, o.written, TRUE)
                ELSE Returns([o.u EXCEPT !.buffer[s] = @ \o erase(src, o.written)],
                             Len(src), TRUE))
          ELSE Returns(o.u, Len(src), FALSE) :
              o \in us_socket_write(u, s, src)}

uncork(u, s, src, optionally) ==
    IF isCorkedWith(u, s)
    THEN (IF getCorkOffset(u) > 0
          THEN UNION {IF o.failed /\ optionally THEN {Returns(o.u, 0, TRUE)}
                      ELSE write(o.u, s, src, optionally) :
                          o \in write(cleanCorkedSocket(u), s, u.corkBuffer, FALSE)}
          ELSE write(cleanCorkedSocket(u), s, src, optionally))
    ELSE {Returns(u, 0, FALSE)}

\* flush() keeping the bytes the socket took in the per-socket buffer
flush_m(u, s) ==
    IF Len(u.buffer[s]) = 0 THEN {Returns(u, 0, FALSE)}
    ELSE {Returns([o.u EXCEPT !.buffer[s] = IF o.written < Len(@) THEN @ ELSE <<>>],
                  o.written, FALSE) :
              o \in us_socket_write(u, s, u.buffer[s])}

flush(u, s) ==
    IF Len(u.buffer[s]) = 0 THEN {Returns(u, 0, FALSE)}
    ELSE {Returns([o.u EXCEPT !.buffer[s] = IF o.written < Len(@) THEN erase(@, o.written)
                                             ELSE <<>>],
                  o.written, FALSE) :
              o \in us_socket_write(u, s, u.buffer[s])}

\* cork(): LoopData::isCorked() is either "a socket is corked" or "a socket
\* is corked and the cork buffer holds data" (needsData).
\* cork_m: cork() that takes the cork without uncorking the socket that
\* holds it
cork_m(u, s, needsData) == {setCorkedSocket(u, s)}

cork(u, s, needsData) ==
    LET corked == u.corkedSocket
        isCorked == corked # nullptr /\ (needsData => getCorkOffset(u) > 0)
    IN  IF isCorked /\ corked # s
        THEN {setCorkedSocket(o.u, s) : o \in uncork(u, corked, <<>>, FALSE)}
        ELSE {setCorkedSocket(u, s)}

\* the payload of a write: bytes named by their socket and their rank
\* among the bytes accepted for it
Payload(s, from, n) == [i \in 1..n |-> <<s, from + i>>]

\* ------------------------------------------------- the state machine
\* the current state as one record, and its assignment
Cur ==
    [input |-> input, startD |-> startD, endD |-> endD, ellipsis |-> ellipsis, pc |-> pc,
     ret |-> ret, asciiPrefix |-> asciiPrefix, start |-> start, end |-> end,
     cutEndKnown |-> cutEndKnown, cutEndHint |-> cutEndHint,
     needStartEllipsis |-> needStartEllipsis, needEndEllipsis |-> needEndEllipsis,
     ellipsisEndBudget |-> ellipsisEndBudget, p |-> p, runEnd |-> runEnd,
     position |-> position, include |-> include, prevVisCp |-> prevVisCp,
     hasPrev |-> hasPrev, breakState |-> breakState, gs |-> gs,
     activeStyles |-> activeStyles, activeHyperlink |-> activeHyperlink,
     pending |-> pending, result |-> result, specZone |-> specZone,
     inSpecZone |-> inSpecZone, sawCutEnd |-> sawCutEnd]

IsState(w) ==
    /\ input = w.input /\ startD = w.startD /\ endD = w.endD /\ ellipsis = w.ellipsis
    /\ pc = w.pc /\ ret = w.ret /\ asciiPrefix = w.asciiPrefix /\ start = w.start
    /\ end = w.end /\ cutEndKnown = w.cutEndKnown /\ cutEndHint = w.cutEndHint
    /\ needStartEllipsis = w.needStartEllipsis /\ needEndEllipsis = w.needEndEllipsis
    /\ ellipsisEndBudget = w.ellipsisEndBudget /\ p = w.p /\ runEnd = w.runEnd
    /\ position = w.position /\ include = w.include /\ prevVisCp = w.prevVisCp
    /\ hasPrev = w.hasPrev /\ breakState = w.breakState /\ gs = w.gs
    /\ activeStyles = w.activeStyles /\ activeHyperlink = w.activeHyperlink
    /\ pending = w.pending /\ result = w.result /\ specZone = w.specZone
    /\ inSpecZone = w.inSpecZone /\ sawCutEnd = w.sawCutEnd
    /\ uws = LoopDataInit

Becomes(w) ==
    /\ input' = w.input /\ startD' = w.startD /\ endD' = w.endD /\ ellipsis' = w.ellipsis
    /\ pc' = w.pc /\ ret' = w.ret /\ asciiPrefix' = w.asciiPrefix /\ start' = w.start
    /\ end' = w.end /\ cutEndKnown' = w.cutEndKnown /\ cutEndHint' = w.cutEndHint
    /\ needStartEllipsis' = w.needStartEllipsis /\ needEndEllipsis' = w.needEndEllipsis
    /\ ellipsisEndBudget' = w.ellipsisEndBudget /\ p' = w.p /\ runEnd' = w.runEnd
    /\ position' = w.position /\ include' = w.include /\ prevVisCp' = w.prevVisCp
    /\ hasPrev' = w.hasPrev /\ breakState' = w.breakState /\ gs' = w.gs
    /\ activeStyles' = w.activeStyles /\ activeHyperlink' = w.activeHyperlink
    /\ pending' = w.pending /\ result' = w.result /\ specZone' = w.specZone
    /\ inSpecZone' = w.inSpecZone /\ sawCutEnd' = w.sawCutEnd
    /\ uws' = uws

\* the step the program takes from state w (w.pc # "done")
Step(w) ==
    IF w.pc = "call" THEN sliceAnsiImpl(w)
    ELSE IF w.pc = "emit" THEN emitSliceStreamingEnter(w)
    ELSE IF w.p >= Len(w.input) /\ (w.pc = "loop" \/ (w.pc = "run" /\ w.p >= w.runEnd))
    THEN [w EXCEPT !.pc = "walkDone"]
    ELSE IF w.pc = "loop" THEN LoopHead(w)
    ELSE IF w.pc = "run" /\ w.p < w.runEnd THEN RunCp(w)
    ELSE IF w.pc = "run" /\ TokenAt(w).ok THEN RouteToken(w, TokenAt(w))
    ELSE IF w.pc = "run" THEN FalsePositiveCp(w)
    ELSE WalkDone(w)

\* the whole call as a function: the final state reached from w
RECURSIVE RunToEnd(_)
RunToEnd(w) == IF w.pc = "done" THEN w ELSE RunToEnd(Step(w))

\* flat string held by a buffer of chunks
RECURSIVE Flat(_)
Flat(chunks) == IF Len(chunks) = 0 THEN <<>> ELSE chunks[1].s \o Flat(Tail(chunks))

\* what the JavaScript binding returns for a finished call: the input
\* itself when sliceAnsiImpl returned null
Returned(w) == IF w.ret = "null" THEN w.input ELSE Flat(w.result)

\* Bun.sliceAnsi(inp, sD, eD, ell) as a function
sliceAnsi(inp, sD, eD, ell) == Returned(RunToEnd(Call(inp, sD, eD, ell)))

\* ------------------------------------------------- inputs
MaxPieces == 3
MaxStart == 2
MaxEnd == 4
MaxLivePieces == 3
MaxCtlPieces == 3
MaxSgrPieces == 3
MaxLinkPieces == 3
MaxClusterCps == 3
MaxFilterPieces == 3
MaxCsiPieces == 3
MaxOscPieces == 3

\* building blocks of the inputs
PieceA == <<97>>
PieceWide == <<26085>>
PieceCombining == <<769>>
PieceMan == <<55357, 56424>>
PieceZwjWoman == <<ZWJ, 55357, 56425>>
PieceRed == <<ESC, 91, 51, 49, 109>>
PieceBold == <<ESC, 91, 49, 109>>
PieceFgClose == <<ESC, 91, 51, 57, 109>>
PieceLinkOpen == <<ESC, 93, 56, 59, 59, 117, BEL>>
PieceLinkClose == <<ESC, 93, 56, 59, 59, BEL>>
PieceEraseLine == <<ESC, 91, 75>>
PieceLoneEsc == <<ESC>>

Pieces ==
    {PieceA, PieceWide, PieceCombining, PieceMan, PieceZwjWoman, PieceRed, PieceBold,
     PieceFgClose, PieceLinkOpen, PieceLinkClose, PieceEraseLine, PieceLoneEsc}

Ellipses == {<<>>, <<8230>>}

RECURSIVE Concat(_)
Concat(ps) == IF Len(ps) = 0 THEN <<>> ELSE ps[1] \o Concat(Tail(ps))

InputsOver(pieces, maxPieces) ==
    {Concat(ps) : ps \in UNION {[1..k -> pieces] : k \in 0..maxPieces}}

\* the pieces of the longer inputs
CorePieces == {PieceA, PieceWide, PieceCombining, PieceRed, PieceLinkOpen}

\* every input of up to MaxPieces pieces, and every input of MaxPieces + 1
\* core pieces
Inputs == InputsOver(Pieces, MaxPieces) \cup InputsOver(CorePieces, MaxPieces + 1)

Init ==
    \E inp \in Inputs, sD \in (0..MaxStart) \cup {-1}, eD \in (0..MaxEnd) \cup {-1, Infinity},
       ell \in Ellipses :
        IsState(Call(inp, sD, eD, ell))

\* ------------------------------------------------- actions
\* sliceAnsiImpl up to its return or its call of emitSliceStreaming
SliceAnsiImpl ==
    /\ pc = "call"
    /\ Becomes(sliceAnsiImpl(Cur))

\* emitSliceStreaming up to the main walk
EmitEnter ==
    /\ pc = "emit"
    /\ Becomes(emitSliceStreamingEnter(Cur))

\* head of one iteration of the main walk, with its bulk ASCII block
LoopTop ==
    /\ pc = "loop"
    /\ p < Len(input)
    /\ Becomes(LoopHead(Cur))

\* one codepoint of the per-codepoint loop
VisibleCp ==
    /\ pc = "run"
    /\ p < runEnd
    /\ Becomes(RunCp(Cur))

\* a recognized ANSI token at the end of the run
AnsiToken ==
    /\ pc = "run"
    /\ p >= runEnd
    /\ p < Len(input)
    /\ TokenAt(Cur).ok
    /\ Becomes(RouteToken(Cur, TokenAt(Cur)))

\* no token at the end of the run: one visible codepoint
FalsePositive ==
    /\ pc = "run"
    /\ p >= runEnd
    /\ p < Len(input)
    /\ ~TokenAt(Cur).ok
    /\ Becomes(FalsePositiveCp(Cur))

\* the walk leaves its loop at end of input
LoopExit ==
    /\ pc \in {"loop", "run"}
    /\ pc = "run" => p >= runEnd
    /\ p >= Len(input)
    /\ Becomes([Cur EXCEPT !.pc = "walkDone"])

\* the code after the walk, up to the return
Finish ==
    /\ pc = "walkDone"
    /\ Becomes(WalkDone(Cur))

Next ==
    \/ SliceAnsiImpl
    \/ EmitEnter
    \/ LoopTop
    \/ VisibleCp
    \/ AnsiToken
    \/ FalsePositive
    \/ LoopExit
    \/ Finish

Spec == Init /\ [][Next]_vars

\* one call is one synchronous computation that is never suspended: while
\* a step is possible, a step is taken.  NextEnabled is the enabling
\* condition of Next, the disjunction of the guards of its actions, and
\* the fairness condition is WF_vars(Next) with that condition written out
LivePieces == {PieceA, PieceWide, PieceCombining, PieceRed, PieceLoneEsc}

LiveInit ==
    \E inp \in InputsOver(LivePieces, MaxLivePieces), sD \in (0..MaxStart) \cup {-1},
       eD \in (0..MaxEnd) \cup {-1, Infinity}, ell \in Ellipses :
        IsState(Call(inp, sD, eD, ell))

NextEnabled ==
    \/ pc = "call"
    \/ pc = "emit"
    \/ pc = "loop" /\ p < Len(input)
    \/ pc = "run" /\ p < runEnd
    \/ pc = "run" /\ p >= runEnd /\ p < Len(input) /\ (TokenAt(Cur).ok \/ ~TokenAt(Cur).ok)
    \/ pc \in {"loop", "run"} /\ (pc = "run" => p >= runEnd) /\ p >= Len(input)
    \/ pc = "walkDone"

LiveSpec == LiveInit /\ [][Next]_vars /\ ([]<>(~NextEnabled) \/ []<><<Next>>_vars)

\* calls on inputs with control-string introducers: each 7-bit and C1
\* introducer, a hyperlink open without its terminator, and the units that
\* may follow them (text, an SGR sequence, a BEL)
PieceBel == <<BEL>>
PieceOsc == <<ESC, 93>>
PieceDcs == <<ESC, 80>>
PieceSos == <<ESC, 88>>
PiecePm == <<ESC, 94>>
PieceApc == <<ESC, 95>>
PieceC1Osc == <<C1_OSC>>
PieceC1Dcs == <<C1_DCS>>
PieceC1Sos == <<C1_SOS>>
PieceC1Pm == <<C1_PM>>
PieceC1Apc == <<C1_APC>>
PieceLinkNoEnd == <<ESC, 93, 56, 59, 59, 117>>

CtlPieces ==
    {PieceA, PieceRed, PieceBel, PieceOsc, PieceDcs, PieceSos, PiecePm, PieceApc,
     PieceC1Osc, PieceC1Dcs, PieceC1Sos, PieceC1Pm, PieceC1Apc, PieceLinkNoEnd}

CtlInit ==
    \E inp \in InputsOver(CtlPieces, MaxCtlPieces), sD \in 0..MaxStart,
       eD \in {MaxStart, MaxEnd, Infinity}, ell \in Ellipses :
        IsState(Call(inp, sD, eD, ell))

CtlSpec == CtlInit /\ [][Next]_vars

\* calls on inputs of SGR sequences: styles with their own close code
\* (31 and 32 close with 39, 1 and 2 with 22, 4:3 with 24), styles that
\* close with the full reset (10, 51), a C1 form, a sequence of two
\* parameters, a close, the reset, and an ESC that starts no sequence
PieceGreen == <<ESC, 91, 51, 50, 109>>
PieceDim == <<ESC, 91, 50, 109>>
PieceFont == <<ESC, 91, 49, 48, 109>>
PieceFramed == <<ESC, 91, 53, 49, 109>>
PieceC1Red == <<C1_CSI, 51, 49, 109>>
PieceCurly == <<ESC, 91, 52, 58, 51, 109>>
PieceBoldRed == <<ESC, 91, 49, 59, 51, 49, 109>>
PieceReset == <<ESC, 91, 48, 109>>

\* the sequences that start one style
StartPieces ==
    {PieceRed, PieceGreen, PieceBold, PieceDim, PieceFont, PieceFramed, PieceC1Red, PieceCurly}

SgrPieces == StartPieces \cup {PieceA, PieceBoldRed, PieceFgClose, PieceReset, PieceLoneEsc}

SgrInit ==
    \E inp \in InputsOver(SgrPieces, MaxSgrPieces), sD \in 0..MaxStart,
       eD \in {MaxEnd, Infinity}, ell \in Ellipses :
        IsState(Call(inp, sD, eD, ell))

SgrSpec == SgrInit /\ [][Next]_vars

\* calls on inputs of hyperlink sequences: an open of each flavor with each
\* terminator, a close of each flavor, and an open without terminator
PieceLinkOpenSt == <<ESC, 93, 56, 59, 59, 117, ESC, 92>>
PieceLinkOpenC1St == <<ESC, 93, 56, 59, 59, 117, C1_ST>>
PieceC1LinkOpen == <<C1_OSC, 56, 59, 59, 117, BEL>>
PieceC1LinkOpenSt == <<C1_OSC, 56, 59, 59, 117, ESC, 92>>
PieceC1LinkOpenC1St == <<C1_OSC, 56, 59, 59, 117, C1_ST>>
PieceC1LinkClose == <<C1_OSC, 56, 59, 59, C1_ST>>

LinkOpenPieces ==
    {PieceLinkOpen, PieceLinkOpenSt, PieceLinkOpenC1St,
     PieceC1LinkOpen, PieceC1LinkOpenSt, PieceC1LinkOpenC1St}

LinkPieces ==
    LinkOpenPieces \cup {PieceA, PieceWide, PieceLinkClose, PieceC1LinkClose, PieceLinkNoEnd}

LinkInit ==
    \E inp \in InputsOver(LinkPieces, MaxLinkPieces), sD \in 0..MaxStart,
       eD \in {MaxEnd, Infinity}, ell \in Ellipses :
        IsState(Call(inp, sD, eD, ell))

LinkSpec == LinkInit /\ [][Next]_vars

\* the width accumulator on its own: the break oracle is external, so the
\* codepoints joined into one cluster are any base followed by codepoints
\* of the classes the Unicode rules join to what precedes them (Extend,
\* ZWJ, a pictograph after ZWJ, a second regional indicator, SpacingMark).
\* In these states input holds the codepoints of the cluster.
ClusterBases == {97, 49, 2325, 26085, 128104, 127462}

ClusterJoiners == {769, 2307, ZWJ, VS16, KEYCAP, 127995, 127463, 128105}

ClusterInit == IsState([Call(<<>>, 0, 0, <<>>) EXCEPT !.pc = "cluster"])

\* reset(cp): the first codepoint of a cluster
ClusterReset ==
    /\ pc = "cluster"
    /\ gs.count = 0
    /\ \E cp \in ClusterBases : Becomes([Cur EXCEPT !.gs = gsReset(cp), !.input = <<cp>>])

\* add(cp): a codepoint joined to the cluster
ClusterAdd ==
    /\ pc = "cluster"
    /\ gs.count >= 1
    /\ Len(input) < MaxClusterCps
    /\ \E cp \in ClusterJoiners :
           /\ IsExtPict(cp) => (gs.lastCp = ZWJ /\ IsExtPict(gs.firstCp))
           /\ IsRegionalIndicator(cp) => (IsRegionalIndicator(gs.lastCp) /\ gs.count = 1)
           /\ Becomes([Cur EXCEPT !.gs = gsAdd(gs, cp), !.input = Append(input, cp)])

WidthInit == ClusterInit \/ LiveInit

WidthNext == ClusterReset \/ ClusterAdd \/ Next

WidthSpec == WidthInit /\ [][WidthNext]_vars

\* the width accumulator over clusters of any length: a base followed by
\* any number of combining marks (U+0301, width 0) and spacing marks
\* (U+0903, width 1), which the Unicode rules join to what precedes them.
\* The accumulator saturates, so these states are finitely many; input is
\* not recorded in them.
AccBases == {97, 26085}

AccJoiners == {769, 2307}

AccInit == IsState([Call(<<>>, 0, 0, <<>>) EXCEPT !.pc = "acc"])

\* reset(cp): a cluster break, cp starts the next cluster
AccReset ==
    /\ pc = "acc"
    /\ \E cp \in AccBases : Becomes([Cur EXCEPT !.gs = gsReset(cp)])

\* add(cp): cp is joined to the cluster
AccAdd ==
    /\ pc = "acc"
    /\ gs.count >= 1
    /\ \E cp \in AccJoiners : Becomes([Cur EXCEPT !.gs = gsAdd(gs, cp)])

AccNext == AccReset \/ AccAdd

AccSpec == AccInit /\ [][AccNext]_vars

\* calls on inputs with carriage returns and line feeds
MaxCrlfPieces == 3

PieceCr == <<CR>>
PieceLf == <<LF>>

CrlfPieces == {PieceA, PieceMan, PieceCombining, PieceCr, PieceLf, PieceRed, PieceLoneEsc}

CrlfInit ==
    \E inp \in InputsOver(CrlfPieces, MaxCrlfPieces), sD \in (0..MaxStart) \cup {-1},
       eD \in (0..MaxEnd) \cup {-1, Infinity}, ell \in Ellipses :
        IsState(Call(inp, sD, eD, ell))

CrlfSpec == CrlfInit /\ [][Next]_vars

\* ------------------------------------------------- the sockets of a loop
sliceVars ==
    <<input, startD, endD, ellipsis, pc, ret, asciiPrefix, start, end, cutEndKnown,
      cutEndHint, needStartEllipsis, needEndEllipsis, ellipsisEndBudget, p, runEnd,
      position, include, prevVisCp, hasPrev, breakState, gs, activeStyles,
      activeHyperlink, pending, result, specZone, inSpecZone, sawCutEnd>>

SocketInit == IsState([Call(<<>>, 0, 0, <<>>) EXCEPT !.pc = "socket"])

\* the state u left by the call op on socket s
Called(u, op, s) ==
    [u EXCEPT !.call = [op |-> op, s |-> s, corkedBefore |-> uws.corkedSocket,
                        offsetBefore |-> getCorkOffset(uws)]]

Cork ==
    /\ pc = "socket"
    /\ \E s \in Sockets, needsData \in BOOLEAN :
           \E u \in cork(uws, s, needsData) : uws' = Called(u, "cork", s)
    /\ UNCHANGED sliceVars

\* write(src, length) with optionally = false
Write ==
    /\ pc = "socket"
    /\ \E s \in Sockets, n \in 0..MaxPayload :
           /\ uws.accepted[s] + n <= MaxAccepted
           /\ \E o \in write([uws EXCEPT !.accepted[s] = @ + n], s,
                             Payload(s, uws.accepted[s], n), FALSE) :
                  uws' = Called(o.u, "write", s)
    /\ UNCHANGED sliceVars

\* uncork() with its default arguments
Uncork ==
    /\ pc = "socket"
    /\ \E s \in Sockets :
           \E o \in uncork(uws, s, <<>>, FALSE) : uws' = Called(o.u, "uncork", s)
    /\ UNCHANGED sliceVars

Flush ==
    /\ pc = "socket"
    /\ \E s \in Sockets :
           \E o \in flush(uws, s) : uws' = Called(o.u, "flush", s)
    /\ UNCHANGED sliceVars

SocketNext == Cork \/ Write \/ Uncork \/ Flush

SocketSpec == SocketInit /\ [][SocketNext]_vars

\* calls on inputs with SGR sequences of several parameters: closes of a
\* style that is active and of one that is not, a close with a start, the
\* 256-color and truecolor forms, 38 alone, the two opaque forms (a colon,
\* more than kMax parameters) and a sequence of exactly kMax parameters
RECURSIVE Repeat(_, _)
Repeat(units, n) == IF n = 0 THEN <<>> ELSE units \o Repeat(units, n - 1)

PieceCloseFgBg == <<ESC, 91, 51, 57, 59, 52, 57, 109>>
PieceCloseFgBold == <<ESC, 91, 51, 57, 59, 49, 109>>
PieceCloseBold == <<ESC, 91, 50, 50, 109>>
Piece256 == <<ESC, 91, 51, 56, 59, 53, 59, 49, 109>>
PieceTrueBg == <<ESC, 91, 52, 56, 59, 50, 59, 49, 59, 50, 59, 51, 109>>
Piece38 == <<ESC, 91, 51, 56, 109>>
PieceOverflow == <<ESC, 91>> \o Repeat(<<59>>, kMax) \o <<49, 109>>
PieceFull == <<ESC, 91>> \o Repeat(<<59>>, kMax - 1) \o <<49, 109>>

FilterPieces ==
    {PieceA, PieceWide, PieceLoneEsc, PieceRed, PieceBoldRed, Piece256, PieceTrueBg, Piece38,
     PieceFont, PieceCurly, PieceOverflow, PieceFull, PieceFgClose, PieceReset, PieceCloseFgBg,
     PieceCloseFgBold, PieceCloseBold}

FilterInit ==
    \E inp \in InputsOver(FilterPieces, MaxFilterPieces), sD \in 0..MaxStart,
       eD \in {MaxStart, MaxEnd, Infinity}, ell \in Ellipses :
        IsState(Call(inp, sD, eD, ell))

FilterSpec == FilterInit /\ [][Next]_vars

\* calls on inputs with CSI sequences cut short: an introducer or an
\* introducer with parameters, followed by end of input, by a byte no CSI
\* may contain (BEL, ESC, a codepoint above 0x7E) or by a final byte; and
\* complete CSI sequences with the final byte 'm' or another one, with a
\* private parameter byte ('?') or an intermediate byte (space)
PieceCsi == <<ESC, 91>>
PieceC1Csi == <<C1_CSI>>
PieceCsiParam == <<ESC, 91, 51, 59>>
PieceCsiPrivM == <<ESC, 91, 63, 49, 109>>
PieceCsiInterM == <<ESC, 91, 49, 32, 109>>

CsiPieces ==
    {PieceA, PieceWide, PieceBel, PieceLoneEsc, PieceCsi, PieceC1Csi, PieceCsiParam, PieceRed,
     PieceC1Red, PieceCurly, PieceEraseLine, PieceCsiPrivM, PieceCsiInterM}

CsiInit ==
    \E inp \in InputsOver(CsiPieces, MaxCsiPieces), sD \in 0..MaxStart,
       eD \in {MaxStart, MaxEnd, Infinity}, ell \in Ellipses :
        IsState(Call(inp, sD, eD, ell))

CsiSpec == CsiInit /\ [][Next]_vars

\* calls on inputs with an OSC 8 that is terminated before the second ';'
\* of a hyperlink, followed by text and by well-formed hyperlinks
PieceOsc8Bel == <<ESC, 93, 56, 59, BEL>>

OscPieces ==
    {PieceA, PieceWide, PieceLoneEsc, PieceBel, PieceOsc8Bel, PieceLinkOpen, PieceLinkClose}

OscInit ==
    \E inp \in InputsOver(OscPieces, MaxOscPieces), sD \in 0..MaxStart,
       eD \in {MaxEnd, Infinity}, ell \in Ellipses :
        IsState(Call(inp, sD, eD, ell))

OscSpec == OscInit /\ [][Next]_vars

\* ------------------------------------------------- vocabulary of the properties
Done == pc = "done"

\* a call with non-negative indices a <= b
NonNegativeRange == 0 <= startD /\ startD <= endD

\* the clusters of the input, as the pre-pass loop of computeTotalWidth
\* delimits and measures them: units (indices of the cluster's visible
\* units), first (its first unit), col (start column), width
CloseCluster(acc, cur, g) == Append(acc, [cur EXCEPT !.width = gsWidth(g)])

NewCluster(q, len, col) == [units |-> q..(q + len - 1), first |-> q, col |-> col, width |-> 0]

RECURSIVE ClusterLoop(_, _, _, _, _, _, _, _)
ClusterBreak(d, q, dec, acc, cur, state, g, hasPrevious) ==
    IF hasPrevious
    THEN ClusterLoop(d, q + dec[2], dec[1], TRUE, state, gsReset(dec[1]),
                     NewCluster(q, dec[2], cur.col + gsWidth(g)), CloseCluster(acc, cur, g))
    ELSE ClusterLoop(d, q + dec[2], dec[1], TRUE, state, gsReset(dec[1]),
                     NewCluster(q, dec[2], 0), acc)

ClusterJoin(d, q, dec, acc, cur, state, g) ==
    ClusterLoop(d, q + dec[2], dec[1], TRUE, state, gsAdd(g, dec[1]),
                [cur EXCEPT !.units = cur.units \cup (q..(q + dec[2] - 1))], acc)

ClusterCp(d, q, dec, brk, acc, cur, g, hasPrevious) ==
    IF brk[1] THEN ClusterBreak(d, q, dec, acc, cur, brk[2], g, hasPrevious)
    ELSE ClusterJoin(d, q, dec, acc, cur, brk[2], g)

ClusterLoop(d, q, prevCp, hasPrevious, state, g, cur, acc) ==
    IF q >= Len(d) THEN (IF hasPrevious THEN CloseCluster(acc, cur, g) ELSE acc)
    ELSE IF (isEscapeCharacter(At(d, q)) \/ At(d, q) = C1_ST) /\ tryParseAnsi(d, q).ok
    THEN ClusterLoop(d, tryParseAnsi(d, q).after, prevCp, hasPrevious, state, g, cur, acc)
    ELSE ClusterCp(d, q, decodeUTF16(d, q),
                   BreakDecision(hasPrevious, prevCp, decodeUTF16(d, q)[1], state),
                   acc, cur, g, hasPrevious)

Clusters(d) == ClusterLoop(d, 0, 0, FALSE, 0, gsInit, NewCluster(0, 0, 0), <<>>)

RECURSIVE SumWidth(_, _)
SumWidth(cs, keep) ==
    IF Len(cs) = 0 THEN 0
    ELSE (IF keep[1] THEN cs[1].width ELSE 0) + SumWidth(Tail(cs), Tail(keep))

\* the input units the output holds as visible text
IsCopiedText(c) == c.k \in {"cp", "text"}

UnitsOf(chunks) ==
    UNION {chunks[j].i .. (chunks[j].i + Len(chunks[j].s) - 1) :
           j \in {j \in 1..Len(chunks) : IsCopiedText(chunks[j])}}

EmittedUnits == IF ret = "null" THEN 0..(Len(input) - 1) ELSE UnitsOf(result)

\* the summed width of the clusters of cs whose first unit is in units
WidthOfEmitted(cs, units) == SumWidth(cs, [j \in 1..Len(cs) |-> cs[j].first \in units])

EmittedWidth == WidthOfEmitted(Clusters(input), EmittedUnits)

\* the summed width of the clusters of cs whose start column is in [a, b)
WidthOfColumns(cs, a, b) == SumWidth(cs, [j \in 1..Len(cs) |-> a <= cs[j].col /\ cs[j].col < b])

WidthStartingIn(a, b) == WidthOfColumns(Clusters(input), a, b)

HasAnsiAndCluster(cs) ==
    /\ \E q \in 0..(Len(input) - 1) : At(input, q) = ESC
    /\ \E j \in 1..Len(cs) : Cardinality(cs[j].units) > 1

\* C2: with start = 0, end = +infinity and an ellipsis of width 0, a call
\* on a non-empty input never enters the walk, and returns the null
\* result, for which the caller returns the input itself.
C2_IdentityFastPath ==
    (startD = 0 /\ endD = Infinity /\ Bun__visibleWidthExcludeANSI(ellipsis) = 0
     /\ input # <<>>)
        => /\ pc \in {"call", "done"}
           /\ p = 0 /\ position = 0 /\ result = <<>>
           /\ Done => (ret = "null" /\ Returned(Cur) = input)

\* the identity call has returned on an input with ANSI and a cluster of
\* several units
C2_Witness ==
    /\ Done /\ startD = 0 /\ endD = Infinity /\ ellipsis = <<>> /\ ret = "null"
    /\ HasAnsiAndCluster(Clusters(input))

\* ------------------------------------------------- C3
IsSgrChunk(c) == c.k \in {"open", "Sgr", "close"}

\* the tracker after the SGR sequences of a buffer, from entries on
RECURSIVE StylesAfter(_, _)
StylesAfter(chunks, entries) ==
    IF Len(chunks) = 0 THEN entries
    ELSE StylesAfter(Tail(chunks),
                     IF IsSgrChunk(chunks[1]) THEN applySgrToState(entries, chunks[1].s)
                     ELSE entries)

IsNotCloseChunk(c) == c.k # "close"

EntrySet(entries) == {entries[j] : j \in 1..Len(entries)}

IsHyperlinkOpen(c) ==
    /\ c.k \notin {"cp", "text"}
    /\ tryParseAnsi(c.s, 0).ok
    /\ tryParseAnsi(c.s, 0).type = "Hyperlink"
    /\ tryParseAnsi(c.s, 0).hlOpen

IsHyperlinkClose(c) ==
    /\ c.k \notin {"cp", "text"}
    /\ tryParseAnsi(c.s, 0).ok
    /\ tryParseAnsi(c.s, 0).type = "Hyperlink"
    /\ ~tryParseAnsi(c.s, 0).hlOpen

RECURSIVE RenderLoop(_, _, _, _, _)
RenderToken(d, q, tok, styles, link, acc) ==
    IF tok.type = "Sgr"
    THEN RenderLoop(d, tok.after, applySgrToState(styles, Span(d, q, tok.after)), link, acc)
    ELSE IF tok.type = "Hyperlink"
    THEN RenderLoop(d, tok.after, styles, IF tok.hlOpen THEN tok.code ELSE <<>>, acc)
    ELSE RenderLoop(d, tok.after, styles, link, acc)

RenderCp(d, q, dec, styles, link, acc) ==
    RenderLoop(d, q + dec[2], styles, link,
               Append(acc, [cp |-> dec[1], styles |-> EntrySet(styles), link |-> link]))

RenderLoop(d, q, styles, link, acc) ==
    IF q >= Len(d) THEN acc
    ELSE IF (isEscapeCharacter(At(d, q)) \/ At(d, q) = C1_ST) /\ tryParseAnsi(d, q).ok
    THEN RenderToken(d, q, tryParseAnsi(d, q), styles, link, acc)
    ELSE RenderCp(d, q, decodeUTF16(d, q), styles, link, acc)

Render(d) == RenderLoop(d, 0, <<>>, <<>>, <<>>)

\* the split points b of the finished call's range [a, c)
SplitPoints == startD..Min2(endD, MaxEnd + 1)

\* C5: for 0 <= a <= b <= c and no ellipsis, slice(s, a, b) followed by
\* slice(s, b, c) shows the same codepoints in the same order as
\* slice(s, a, c), each under the same styles and the same hyperlink.
C5_SplitRendersSame ==
    (Done /\ ellipsis = <<>> /\ NonNegativeRange)
        => \A b \in SplitPoints :
               Render(sliceAnsi(input, startD, b, <<>>) \o sliceAnsi(input, b, endD, <<>>))
                   = Render(Returned(Cur))

\* a finished call split at a point where both parts are non-empty and a
\* style and a hyperlink are active across the split
C5_Witness ==
    /\ Done /\ ellipsis = <<>> /\ NonNegativeRange /\ ret = "string"
    /\ \E b \in SplitPoints :
        /\ Render(sliceAnsi(input, startD, b, <<>>)) # <<>>
        /\ Render(sliceAnsi(input, b, endD, <<>>)) # <<>>
        /\ Render(sliceAnsi(input, b, endD, <<>>))[1].styles # {}
        /\ Render(sliceAnsi(input, b, endD, <<>>))[1].link # <<>>
        /\ Render(sliceAnsi(input, startD, b, <<>>))[1].styles # {}

\* ------------------------------------------------- C6
\* a cluster is whole in a set of emitted units, or absent from it
WholeOrAbsent(c, units) == c.units \subseteq units \/ c.units \cap units = {}

AllWholeOrAbsent(cs, units) == \A j \in 1..Len(cs) : WholeOrAbsent(cs[j], units)

StraddlesBoundary(c) ==
    /\ Cardinality(c.units) > 2 /\ c.width = 2
    /\ c.col + 1 = startD \/ c.col + 1 = endD

C7_AsStated ==
    (Done /\ ellipsis = <<>> /\ NonNegativeRange)
        => \A j \in 1..Len(Clusters(input)) :
               (Clusters(input)[j].width = 2 /\ Clusters(input)[j].col = endD - 1)
                   => Clusters(input)[j].first \notin EmittedUnits

\* C7, corrected: without ellipsis a cluster is emitted when its start
\* column is in [start, end), whatever its width: a width-2 cluster that
\* starts at column end - 1 (at or after start) is emitted whole, so on a
\* single width-2 cluster (0, 1) returns the whole cluster, as (0, 2) does.
C7_WideClusterAtEnd ==
    (Done /\ ellipsis = <<>> /\ NonNegativeRange)
        => /\ \A j \in 1..Len(Clusters(input)) :
                  (/\ Clusters(input)[j].width = 2
                   /\ Clusters(input)[j].col = endD - 1
                   /\ Clusters(input)[j].col >= startD)
                      => Clusters(input)[j].units \subseteq EmittedUnits
           /\ (Len(Clusters(input)) = 1 /\ Clusters(input)[1].width = 2
               /\ Clusters(input)[1].units = 0..(Len(input) - 1)
               /\ startD = 0 /\ endD \in {1, 2})
                  => Returned(Cur) = input

\* (0, 1) has returned on an input that is a single width-2 cluster
C7_Witness ==
    /\ Done /\ ellipsis = <<>> /\ startD = 0 /\ endD = 1
    /\ Len(Clusters(input)) = 1 /\ Clusters(input)[1].width = 2
    /\ Clusters(input)[1].units = 0..(Len(input) - 1)
    /\ Flat(result) = input

\* ------------------------------------------------- C8
\* what window entry has to put first, from the state before the step:
\* one open per active style, the start ellipsis if needed, the open
\* sequence of the active hyperlink if any
ExpectedEntry ==
    [j \in 1..Len(activeStyles) |->
        Chunk("open", activeStyles[j].openCode, -1)]
    \o (IF needStartEllipsis THEN <<Chunk("startEllipsis", ellipsis, -1)>> ELSE <<>>)
    \o (IF activeHyperlink.active THEN <<Chunk("HlReplay", activeHyperlink.code, -1)>>
        ELSE <<>>)

\* the first unit of the first cluster of cs that starts at or past column c
FirstAtOrPast(cs, c) ==
    cs[SetMin({j \in 1..Len(cs) : cs[j].col >= c})].first

\* the step that enters the window: nothing was emitted before; the main
\* buffer now starts with the entry sequences in order; what follows, in the
\* main buffer and then in the speculative zone, is copied text that starts
\* with the first cluster at or past start
EntryStep(entry, copied) ==
    /\ result = <<>> /\ specZone = <<>>
    /\ Len(result') >= Len(entry)
    /\ SubSeq(result', 1, Len(entry)) = entry
    /\ copied # <<>>
    /\ \A j \in 1..Len(copied) : IsCopiedText(copied[j])
    /\ \E j \in 1..Len(Clusters(input)) : Clusters(input)[j].col >= start
    /\ copied[1].i = FirstAtOrPast(Clusters(input), start)

IsExitChunk(c) == c.k \in {"HlSynthClose", "endEllipsis", "close"}
IsNotExitChunk(c) == ~IsExitChunk(c)

\* the end ellipsis is due: budgeted and, when the cut was detected lazily,
\* confirmed by the walk
EndEllipsisDue == IF ellipsisEndBudget > 0 THEN sawCutEnd ELSE needEndEllipsis

\* what window exit has to put last
ExpectedExit ==
    (IF activeHyperlink.active
     THEN <<Chunk("HlSynthClose", activeHyperlink.closePrefix \o activeHyperlink.terminator, -1)>>
     ELSE <<>>)
    \o (IF EndEllipsisDue THEN <<Chunk("endEllipsis", ellipsis, -1)>> ELSE <<>>)
    \o [j \in 1..Len(activeStyles) |->
           Chunk("close", activeStyles[Len(activeStyles) + 1 - j].endCode, -1)]

\* C9: a string returned by the walk ends, after everything retained from
\* the input, with the close of the active hyperlink if any, then the end
\* ellipsis if it is due, then the closes of the active styles.
C9_ExitOrder ==
    (Done /\ include /\ ret = "string")
        => result = SelectSeq(result, IsNotExitChunk) \o ExpectedExit

\* a walk has returned with a hyperlink close, an end ellipsis and a style
\* close to append
C9_Witness ==
    /\ Done /\ include /\ ret = "string"
    /\ activeHyperlink.active /\ EndEllipsisDue /\ activeStyles # <<>>
    /\ Len(result) >= 3 /\ result[Len(result) - 1].k = "endEllipsis"

\* ------------------------------------------------- C10
IsFromInput(c) == c.i >= 0

\* C10 as stated: the chunks of the output that are copied from the input
\* are in input order.
C10_AsStated ==
    Done => \A j, k \in 1..Len(result) :
                (j < k /\ IsFromInput(result[j]) /\ IsFromInput(result[k]))
                    => result[j].i < result[k].i

\* ------------------------------------------------- C11
\* largest member of a finite set of integers, -1 for the empty set
SetMax(S) == IF S = {} THEN -1 ELSE CHOOSE x \in S : \A y \in S : y <= x

\* the input index of the last unit of visible text in a buffer
LastTextUnit(chunks) == SetMax(UnitsOf(chunks))

\* an SGR sequence with a parameter that starts a style, or an opaque one
SgrStartsStyle(seq) ==
    \/ parseSgrParams(SgrParamBytes(seq)).overflow
    \/ parseSgrParams(SgrParamBytes(seq)).hasColon
    \/ \E j \in 1..Len(parseSgrParams(SgrParamBytes(seq)).data) :
           ~isSgrEndCode(parseSgrParams(SgrParamBytes(seq)).data[j])

\* a chunk copied from the input that is more than a closing sequence
IsOpeningChunk(c) ==
    \/ c.k = "Sgr" /\ SgrStartsStyle(c.s)
    \/ c.k = "HlOpen"
    \/ c.k = "Control"

\* C11 as stated, for the calls whose end was cut: in the output no SGR
\* sequence that starts a style, no hyperlink open and no opaque control
\* sequence comes from an input position after the last emitted cluster.
C11_AsStated ==
    (Done /\ ret = "string" /\ sawCutEnd)
        => \A j \in 1..Len(result) :
               (IsFromInput(result[j]) /\ result[j].i > LastTextUnit(result))
                   => ~IsOpeningChunk(result[j])

\* ------------------------------------------------- C12
IsPrintableAscii(d) == \A j \in 1..Len(d) : d[j] >= 32 /\ d[j] <= 126

\* the finished call made again with emitSliceStreaming in place of the
\* ASCII-prefix path: sliceAnsiImpl's dispatch to the walk, run to its end
StreamingRun ==
    RunToEnd(StreamingDispatch(Call(input, startD, endD, ellipsis),
                               AsciiPrefixOf(Call(input, startD, endD, ellipsis))))

\* the input units a finished call w returns as visible text
ReturnedUnits(w) == IF w.ret = "null" THEN 0..(Len(w.input) - 1) ELSE UnitsOf(w.result)

\* C12 as stated: on a printable-ASCII input, for every range and ellipsis
\* option, the ASCII-prefix path returns the string the streaming walk
\* returns, copied from the same input positions.
C12_AsStated ==
    (Done /\ input # <<>> /\ IsPrintableAscii(input) /\ ~IsIdentityCall(Cur))
        => /\ Returned(Cur) = Returned(StreamingRun)
           /\ ReturnedUnits(Cur) = ReturnedUnits(StreamingRun)

\* ------------------------------------------------- C13
\* the range of the call in columns: a negative index counts from the
\* total width
TotalWidth == computeTotalWidth(input, 0)

RangeStart ==
    IF startD < 0 THEN (IF TotalWidth + startD > 0 THEN TotalWidth + startD ELSE 0) ELSE startD

RangeEnd == IF endD < 0 THEN (IF TotalWidth + endD > 0 THEN TotalWidth + endD ELSE 0) ELSE endD

EllipsisWidth == Bun__visibleWidthExcludeANSI(ellipsis)

\* the start is cut, the end is cut (a cluster starts at or past the end
\* of the range) and the ellipsis fits on both sides
BothCutsFit ==
    /\ EllipsisWidth > 0 /\ RangeStart > 0 /\ endD # Infinity
    /\ EllipsisWidth < RangeEnd - RangeStart - EllipsisWidth
    /\ \E j \in 1..Len(Clusters(input)) : Clusters(input)[j].col >= RangeEnd

IsEllipsisChunk(c) == c.k \in {"startEllipsis", "endEllipsis", "ellipsis"}

IsEllipsisOrText(c) == IsEllipsisChunk(c) \/ IsCopiedText(c)

\* the units of the clusters of cs whose start column is in [a, b)
UnitsOfColumns(cs, a, b) ==
    UNION {cs[j].units : j \in {j \in 1..Len(cs) : a <= cs[j].col /\ cs[j].col < b}}

\* a buffer that shows the ellipsis, then text, then the ellipsis
EllipsisTextEllipsis(shown) ==
    /\ Len(shown) >= 2
    /\ IsEllipsisChunk(shown[1]) /\ shown[1].s = ellipsis
    /\ IsEllipsisChunk(shown[Len(shown)]) /\ shown[Len(shown)].s = ellipsis
    /\ \A j \in 2..(Len(shown) - 1) : IsCopiedText(shown[j])

\* the output is the ellipsis, the clusters whose start column is in
\* [start + W, end - W), the ellipsis
EllipsisOnBothSides ==
    /\ ret = "string"
    /\ EllipsisTextEllipsis(SelectSeq(result, IsEllipsisOrText))
    /\ UnitsOf(result)
           = UnitsOfColumns(Clusters(input), RangeStart + EllipsisWidth, RangeEnd - EllipsisWidth)

\* C13 as stated, its first part: with both sides cut and the ellipsis
\* fitting on both, the output is the ellipsis, then the clusters of columns
\* [start + W, end - W), then the ellipsis.
C13_AsStated == (Done /\ BothCutsFit) => EllipsisOnBothSides

\* ------------------------------------------------- C14
IsEndEllipsis(c) == c.k = "endEllipsis"

\* a cluster of the input starts at or past column c
ClusterAtOrPast(cs, c) == \E j \in 1..Len(cs) : cs[j].col >= c

\* the end of a buffer: its last n chunks
LastChunks(chunks, n) == SubSeq(chunks, Len(chunks) - n + 1, Len(chunks))

\* no cut: the retained part of the output ends with the speculative zone,
\* there is no end ellipsis, and the output holds the clusters that start
\* in [start, original end)
ZoneKept ==
    /\ ~sawCutEnd
    /\ Len(SelectSeq(result, IsNotExitChunk)) >= Len(specZone)
    /\ LastChunks(SelectSeq(result, IsNotExitChunk), Len(specZone)) = specZone
    /\ SelectSeq(result, IsEndEllipsis) = <<>>
    /\ UnitsOf(result) = UnitsOfColumns(Clusters(input), start, endD)

\* cut: nothing of the speculative zone is in the output, the end ellipsis
\* is, and the output holds the clusters that start in [start, end - W)
ZoneDiscarded ==
    /\ sawCutEnd
    /\ UnitsOf(result) \cap UnitsOf(specZone) = {}
    /\ SelectSeq(result, IsEndEllipsis) = <<Chunk("endEllipsis", ellipsis, -1)>>
    /\ UnitsOf(result) = UnitsOfColumns(Clusters(input), start, endD - EllipsisWidth)

\* C14: when the end cut is detected lazily and the walk has returned a
\* string: if no cluster starts at or past the original end, the
\* speculative zone is appended to the main buffer, no end ellipsis is
\* emitted and every cluster starting in [start, original end) is in the
\* output; if a cluster starts at or past the original end, the zone is
\* discarded and the end ellipsis is emitted.
C14_LazyCutResolved ==
    (Done /\ ellipsisEndBudget > 0 /\ ret = "string")
        => IF ClusterAtOrPast(Clusters(input), endD) THEN ZoneDiscarded ELSE ZoneKept

\* the walk reached end of input with a cluster in the speculative zone
\* and no cut, and returned the zone without an end ellipsis
C14_Witness ==
    /\ Done /\ ellipsisEndBudget > 0 /\ ret = "string"
    /\ ~sawCutEnd /\ UnitsOf(specZone) # {}
    /\ UnitsOf(specZone) \subseteq UnitsOf(result)

\* ------------------------------------------------- C15
\* the finished call has a negative index, and made again with that index
\* resolved it is not the identity call
NegativeStart == startD < 0 /\ ~IsIdentityCall(Call(input, RangeStart, endD, ellipsis))

NegativeEnd == endD < 0

\* C15 as stated: a call with a negative start returns what the call with
\* start max(T - k, 0) returns, and a call with a negative end what the
\* call with end max(T - m, 0) returns, with or without an ellipsis.
C15_AsStated ==
    /\ (Done /\ NegativeStart) => Returned(Cur) = sliceAnsi(input, RangeStart, endD, ellipsis)
    /\ (Done /\ NegativeEnd) => Returned(Cur) = sliceAnsi(input, startD, RangeEnd, ellipsis)

\* ------------------------------------------------- C16
\* the start of the range is at or past the total visible width
StartPastWidth == RangeStart >= TotalWidth

WalkMeasure(cursor, at) == 2 * (Len(input) - cursor) + (IF at = "loop" THEN 1 ELSE 0)

\* a step of the walk: the cursor does not move back nor past the end of
\* the input, and the step leaves the walk or brings it nearer to its end;
\* a step that returns to the head of the outer loop has moved the cursor
WalkStep ==
    (pc \in {"loop", "run"})
        => /\ p <= p' /\ p' <= Len(input)
           /\ pc' = "walkDone" \/ WalkMeasure(p', pc') < WalkMeasure(p, pc)
           /\ (pc = "run" /\ pc' \in {"loop", "run"}) => p < p'

\* C17: every step of the main walk strictly advances the cursor (a bulk
\* ASCII run, one decoded codepoint, or a recognized token that ends after
\* its start and at most at the end of the input) or leaves the walk, and
\* every call returns.
C17_WalkTerminates == [][WalkStep]_vars /\ <>Done

\* a walk that took the bulk block, decoded codepoints and buffered a
\* token has reached the end of the input and returned
C17_Witness ==
    /\ Done /\ include /\ p = Len(input) /\ Len(input) >= 6 /\ Len(input) <= 5 * MaxLivePieces
    /\ \E j \in 1..Len(result) : result[j].k = "text"
    /\ \E j \in 1..Len(result) : result[j].k = "cp"
    /\ \E j \in 1..Len(result) : result[j].k \in {"Sgr", "HlOpen", "Control"}

\* ------------------------------------------------- C18
\* an OSC introducer (ESC ] or 0x9D) and a DCS, SOS, PM or APC introducer
\* (ESC P, ESC X, ESC ^, ESC _ or 0x90, 0x98, 0x9E, 0x9F) at index q
IsOscAt(d, q) ==
    At(d, q) = C1_OSC \/ (At(d, q) = ESC /\ q + 1 < Len(d) /\ At(d, q + 1) = 93)

IsStringIntroAt(d, q) ==
    \/ At(d, q) \in {C1_DCS, C1_SOS, C1_PM, C1_APC}
    \/ At(d, q) = ESC /\ q + 1 < Len(d) /\ At(d, q + 1) \in {80, 88, 94, 95}

IntroLen(d, q) == IF At(d, q) = ESC THEN 2 ELSE 1

\* a terminator of the control string introduced at q: ESC \ or 0x9C, and
\* BEL for an OSC
HasTerminatorAfter(d, q) ==
    \E t \in (q + IntroLen(d, q))..(Len(d) - 1) :
        IsEscSt(d, t) \/ At(d, t) = C1_ST \/ (IsOscAt(d, q) /\ At(d, t) = BEL)

UnterminatedAt(d, q) ==
    (IsOscAt(d, q) \/ IsStringIntroAt(d, q)) /\ ~HasTerminatorAfter(d, q)

\* the buffer the walk is copying into
CopyTarget(w) == IF w.inSpecZone THEN w.specZone ELSE w.result

\* the step taken with the cursor at an unterminated introducer: one code
\* unit, nothing buffered as a token, and inside the window the unit is
\* copied as one visible codepoint; as at any visible codepoint, the walk
\* stops there instead when the unit starts a cluster past the end of the
\* range
UnterminatedStep ==
    (pc = "run" /\ p >= runEnd /\ p < Len(input) /\ UnterminatedAt(input, p))
        => /\ pc' \in {"loop", "walkDone"}
           /\ pc' = "loop" => p' = p + 1
           /\ pc' = "walkDone" => sawCutEnd'
           /\ Len(pending') <= Len(pending)
           /\ (include' /\ pc' = "loop")
                  => /\ CopyTarget(Cur)' # <<>>
                     /\ CopyTarget(Cur)'[Len(CopyTarget(Cur)')] = Chunk("cp", <<At(input, p)>>, p)

\* the units of the input that the chunks of a buffer were copied from
CoveredUnits(chunks) ==
    UNION {chunks[j].i..(chunks[j].i + Len(chunks[j].s) - 1) :
               j \in {k \in 1..Len(chunks) : IsFromInput(chunks[k])}}

HasUnterminated(d) == \E q \in 0..(Len(d) - 1) : UnterminatedAt(d, q)

\* with no end of the range, every unit from the first copied one on is in
\* the output: nothing after an unterminated introducer is swallowed
NothingSwallowed ==
    (Done /\ ret = "string" /\ endD = Infinity /\ HasUnterminated(input)
          /\ UnitsOf(result) # {})
        => \A u \in SetMin(UnitsOf(result))..(Len(input) - 1) : u \in CoveredUnits(result)

\* C18: an OSC, DCS, SOS, PM or APC introducer (a hyperlink open included)
\* with no terminator before the end of the input is no token: the walk
\* processes the introducer unit as one visible codepoint and advances by
\* one code unit, and the units after it are processed as text or further
\* sequences; when the introducer is the first codepoint past the end of
\* the range, the walk ends at it.
C18_UnterminatedIsVisible == [][UnterminatedStep]_vars /\ [](NothingSwallowed)

\* an unterminated DCS introducer followed by text and an SGR sequence,
\* all three copied to the output
C18_Witness ==
    /\ Done /\ ret = "string" /\ endD = Infinity
    /\ \E q \in 0..(Len(input) - 1) :
           /\ UnterminatedAt(input, q) /\ IsStringIntroAt(input, q)
           /\ \E j \in 1..Len(result) : result[j] = Chunk("cp", <<At(input, q)>>, q)
           /\ \E j \in 1..Len(result) : result[j].k = "Sgr" /\ result[j].i > q
           /\ \E j \in 1..Len(result) : IsCopiedText(result[j]) /\ result[j].i > q + 1

\* ------------------------------------------------- C19
\* no two entries of the container have the same close code
OneEntryPerClose(entries) ==
    \A i, j \in 1..Len(entries) : entries[i].endCode = entries[j].endCode => i = j

\* the entries with a close code other than k, in their order
OtherCloses(entries, k) == SelectSeq(entries, LAMBDA e : e.endCode # k)

AllButLast(entries) == SubSeq(entries, 1, Len(entries) - 1)

\* the walk is about to apply, before the window, a sequence that starts
\* one style
AppliesStart ==
    /\ pc = "run" /\ p >= runEnd /\ p < Len(input) /\ ~include
    /\ \E piece \in StartPieces :
           p + Len(piece) <= Len(input) /\ Span(input, p, p + Len(piece)) = piece

\* the applied style is the last entry, and before it are the former
\* entries with another close code, in their former order
StartAppends ==
    AppliesStart
        => /\ activeStyles' # <<>>
           /\ \E piece \in StartPieces :
                  activeStyles'[Len(activeStyles')].openCode = piece
                      /\ Span(input, p, p + Len(piece)) = piece
           /\ AllButLast(activeStyles')
                  = OtherCloses(activeStyles, activeStyles'[Len(activeStyles')].endCode)

\* C19: after any sequence of SGR applications the active-style container
\* holds at most one entry per close code, in insertion order: applying a
\* style removes the entry with the same close code, if any, keeps the
\* others in their order and appends the new entry.
C19_OneEntryPerCloseCode == [](OneEntryPerClose(activeStyles)) /\ [][StartAppends]_vars

\* a style was applied over two entries and replaced the first of them:
\* the second is now first and the new one last
C19_Witness ==
    /\ Len(activeStyles) = 2
    /\ \E a, b, c \in StartPieces :
           /\ a # b /\ a # c /\ Span(input, 0, p) = a \o b \o c
           /\ activeStyles[1].openCode = b /\ activeStyles[2].openCode = c

\* ------------------------------------------------- C20
\* the close prefix of the flavor of an open sequence, and the terminator
\* the sequence ends with
FlavorPrefix(seq) == IF seq[1] = ESC THEN <<ESC, 93, 56, 59, 59>> ELSE <<C1_OSC, 56, 59, 59>>

TerminatorOf(seq) ==
    IF seq[Len(seq)] = BEL THEN <<BEL>>
    ELSE IF seq[Len(seq)] = C1_ST THEN <<C1_ST>>
    ELSE <<ESC, 92>>

IsOpenInOutput(c) == c.k \in {"HlReplay", "HlOpen"}

\* the chunks of the hyperlink opens before chunk j: the opens applied,
\* in the order of their application
OpensBefore(chunks, j) == SelectSeq(SubSeq(chunks, 1, j - 1), IsOpenInOutput)

\* the synthesized close at chunk j closes the last open before it with
\* that open's flavor and terminator
ClosesLastOpen(chunks, j) ==
    /\ OpensBefore(chunks, j) # <<>>
    /\ chunks[j].s = FlavorPrefix(OpensBefore(chunks, j)[Len(OpensBefore(chunks, j))].s)
                        \o TerminatorOf(OpensBefore(chunks, j)[Len(OpensBefore(chunks, j))].s)

\* C20: the hyperlink close synthesized at window exit is the close prefix
\* of the flavor of the active hyperlink's open sequence (ESC ] 8 ; ; or
\* 0x9D 8 ; ;) followed by the terminator that open used (BEL, ESC \ or
\* 0x9C); after several opens it is the one applied last.
C20_CloseMatchesOpen ==
    (Done /\ ret = "string")
        => \A j \in 1..Len(result) :
               result[j].k = "HlSynthClose" => ClosesLastOpen(result, j)

\* two opens of different flavor and terminator were applied, and the
\* synthesized close is that of the second, a C1 open
C20_Witness ==
    /\ Done /\ ret = "string"
    /\ \E j \in 1..Len(result) :
           /\ result[j].k = "HlSynthClose"
           /\ result[j].s[1] = C1_OSC
           /\ \E a, b \in LinkOpenPieces :
                  /\ FlavorPrefix(a) # FlavorPrefix(b) /\ TerminatorOf(a) # TerminatorOf(b)
                  /\ FlavorPrefix(b) \o TerminatorOf(b) = result[j].s
                  /\ \E u \in 0..Len(input) :
                         Span(input, u, Min2(Len(input), u + Len(a) + Len(b))) = a \o b

\* ------------------------------------------------- C21
\* the introducer flavor of an SGR sequence: TRUE for the 8-bit 0x9B form
IsC1Sgr(seq) == seq[1] = C1_CSI

\* the close chunk that the exit emitted for entry e of the container:
\* the closes are the last chunks of the output, in reverse entry order
CloseChunkOf(e) == result[Len(result) - e + 1]

\* C21 as stated, for the closes: the close emitted for a tracked style has
\* the introducer flavor of the sequence that recorded the style.
C21_AsStated ==
    (Done /\ ret = "string")
        => \A e \in 1..Len(activeStyles) :
               /\ CloseChunkOf(e).k = "close"
               /\ IsC1Sgr(CloseChunkOf(e).s) = IsC1Sgr(activeStyles[e].openCode)

\* ------------------------------------------------- C22
\* a cluster of the width accumulator is complete
ClusterSeen == pc = "cluster" /\ gs.count >= 1

RECURSIVE SumCpWidths(_)
SumCpWidths(cps) ==
    IF Len(cps) = 0 THEN 0 ELSE Bun__codepointWidth(cps[1]) + SumCpWidths(Tail(cps))

HasCp(cps, S) == \E j \in 1..Len(cps) : cps[j] \in S

\* none of the emoji, regional-indicator, keycap and variation-selector
\* rules applies to the cluster: its width is the accumulated one
NoWidthRule(cps) ==
    /\ ~HasCp(cps, 127462..127487)
    /\ ~HasCp(cps, {KEYCAP, VS15, VS16})
    /\ ~(Bun__isEmojiPresentation(cps[1]) /\ HasCp(cps, (127995..127999) \cup {ZWJ}))

\* a recognized ANSI sequence leaves the column counter as it is
TokenKeepsColumn ==
    (pc = "run" /\ p >= runEnd /\ p < Len(input) /\ TokenAt(Cur).ok) => position' = position

RECURSIVE Fragments(_, _)
Fragments(params, i) ==
    IF i > Len(params) THEN <<>>
    ELSE IF params[i] = 0 THEN <<[kind |-> "reset", code |-> 0]>> \o Fragments(params, i + 1)
    ELSE IF isSgrEndCode(params[i])
    THEN <<[kind |-> "end", code |-> params[i]]>> \o Fragments(params, i + 1)
    ELSE IF params[i] \in {38, 48} /\ i + 2 <= Len(params) /\ params[i + 1] = 5
    THEN <<[kind |-> "start", code |-> params[i]]>> \o Fragments(params, i + 3)
    ELSE IF params[i] \in {38, 48} /\ i + 4 <= Len(params) /\ params[i + 1] = 2
    THEN <<[kind |-> "start", code |-> params[i]]>> \o Fragments(params, i + 5)
    ELSE <<[kind |-> "start", code |-> params[i]]>> \o Fragments(params, i + 1)

\* the fragment closes something: the reset with a style active, or the
\* end-code of an active style
ClosesActive(f, entries) ==
    \/ f.kind = "reset" /\ entries # <<>>
    \/ f.kind = "end" /\ \E j \in 1..Len(entries) : entries[j].endCode = makeSgrCode(FALSE, f.code)

NewTextIn(before, after) ==
    Len(SelectSeq(after, IsCopiedText)) > Len(SelectSeq(before, IsCopiedText))

\* the step flushes the pending sequences with the close-only filter: the
\* cut at a break, or the trailing flush at or past the end of the range
FilteredFlush ==
    /\ pending # <<>>
    /\ include
    /\ ~NewTextIn(result, result') /\ specZone' = specZone
    /\ \/ pc \in {"loop", "run"} /\ ~sawCutEnd /\ sawCutEnd'
       \/ /\ pc = "walkDone" /\ ~sawCutEnd /\ end # SIZE_MAX
          /\ position + (IF hasPrev THEN gsWidth(gs) ELSE 0) >= specEnd(Cur)

\* one SGR sequence is pending
OneSgrPending == Len(pending) = 1 /\ pending[1].type = "Sgr"

PendingSgrParams == parseSgrParams(SgrParamBytes(Span(input, pending[1].start, pending[1].end)))

PendingSgrFragments == Fragments(PendingSgrParams.data, 1)

PendingSgrOpaque == PendingSgrParams.hasColon \/ PendingSgrParams.overflow

\* the pending sequence is in the output after the step
PendingSgrEmitted ==
    \E j \in (Len(result) + 1)..Len(result') :
        result'[j].k = "Sgr" /\ result'[j].i = pending[1].start

\* C23 as stated, for a decomposable sequence: it passes the filter if and
\* only if every fragment is the reset with a style active or the end-code
\* of an active style.
C23_AsStated ==
    [][(FilteredFlush /\ OneSgrPending /\ ~PendingSgrOpaque)
          => (PendingSgrEmitted
                <=> \A j \in 1..Len(PendingSgrFragments) :
                        ClosesActive(PendingSgrFragments[j], activeStyles))]_vars

\* C23: a post-cut SGR sequence passes the pending-close filter if and
\* only if it is decomposable, at least one of its fragments is the reset
\* with a style active or the end-code of an active style, and none of its
\* fragments is a start.
C23_CloseFilter ==
    [][(FilteredFlush /\ OneSgrPending)
          => (PendingSgrEmitted
                <=> /\ ~PendingSgrOpaque
                    /\ \E j \in 1..Len(PendingSgrFragments) :
                           ClosesActive(PendingSgrFragments[j], activeStyles)
                    /\ \A j \in 1..Len(PendingSgrFragments) :
                           PendingSgrFragments[j].kind # "start")]_vars

\* a sequence with the end-codes 39 and 49 passed the filter after the
\* last cluster of the output while only a foreground style was active
C23_Witness ==
    /\ Done /\ ret = "string" /\ ellipsis = <<>> /\ Len(input) >= 5
    /\ Span(input, 0, 5) = PieceRed
    /\ \E j \in 1..Len(result) :
           /\ result[j].k = "Sgr" /\ result[j].s = PieceCloseFgBg
           /\ result[j].i > LastTextUnit(result)
           /\ LastTextUnit(result) >= 0

\* ------------------------------------------------- C24
\* the walk is about to look for a token at the cursor
AtTokenSite == pc = "run" /\ p >= runEnd /\ p < Len(input)

\* a CSI introducer at unit i: 0x9B, or ESC followed by '['
IsCsiIntroAt(d, i) ==
    \/ At(d, i) = C1_CSI
    \/ At(d, i) = ESC /\ i + 1 < Len(d) /\ At(d, i + 1) = 91

CsiBodyStart(d, i) == IF At(d, i) = C1_CSI THEN i + 1 ELSE i + 2

\* the first unit at or after from that is no parameter or intermediate
\* byte (the length of d when there is none)
FirstNonBody(d, from) ==
    SetMin({k \in from..Len(d) : k = Len(d) \/ ~(At(d, k) >= 32 /\ At(d, k) <= 63)})

\* a CSI whose interior holds a byte outside the parameter, intermediate
\* and final ranges
MalformedCsiAt(d, i) ==
    /\ IsCsiIntroAt(d, i)
    /\ FirstNonBody(d, CsiBodyStart(d, i)) < Len(d)
    /\ ~(At(d, FirstNonBody(d, CsiBodyStart(d, i))) >= 64
           /\ At(d, FirstNonBody(d, CsiBodyStart(d, i))) <= 126)

\* a CSI the input ends in before a final byte
UnterminatedCsiAt(d, i) ==
    IsCsiIntroAt(d, i) /\ FirstNonBody(d, CsiBodyStart(d, i)) = Len(d)

\* an ESC that introduces nothing
BareEscAt(d, i) ==
    /\ At(d, i) = ESC
    /\ i + 1 = Len(d) \/ At(d, i + 1) \notin {91, 93, 80, 88, 94, 95, 92}

\* the step handles one visible codepoint of one unit: the cursor moves
\* one unit on, or the walk is cut at this codepoint
OneVisibleUnit ==
    /\ pending' = pending \/ pending' = <<>>
    /\ \/ p' = p + 1 /\ pc' = "loop" /\ hasPrev'
       \/ pc' = "walkDone" /\ sawCutEnd' /\ p' = p

\* the step takes the units from the cursor up to unit k as one control
\* token: nothing is measured or emitted, the token is buffered inside the
\* window and skipped before it
ControlTokenTo(k) ==
    /\ p' = k /\ pc' = "loop"
    /\ position' = position /\ hasPrev' = hasPrev /\ gs' = gs
    /\ result' = result /\ specZone' = specZone /\ activeStyles' = activeStyles
    /\ pending' = IF include
                  THEN Append(pending, [PendingEntry(Cur, NoMatch) EXCEPT
                                            !.end = k, !.type = "Control"])
                  ELSE pending

BothCutNeitherFits ==
    /\ pc = "emit"
    /\ Bun__visibleWidthExcludeANSI(ellipsis) > 0
    /\ cutEndKnown /\ cutEndHint /\ start > 0
    /\ ~(Bun__visibleWidthExcludeANSI(ellipsis) < end - start)

\* C25: when the end cut is known up front, both the start and the end are
\* cut and the ellipsis fits on neither side, the streaming path returns
\* the ellipsis string alone, with no content, style or hyperlink bytes.
C25_DegenerateEllipsis ==
    [][BothCutNeitherFits
         => (pc' = "done" /\ ret' = "string" /\ result' = <<Chunk("ellipsis", ellipsis, -1)>>)]_vars

\* the call came back from the streaming path with the ellipsis alone, on
\* an input with a style before the one column asked for
C25_Witness ==
    /\ Done /\ ret = "string" /\ result = <<Chunk("ellipsis", ellipsis, -1)>>
    /\ cutEndKnown /\ cutEndHint /\ start > 0 /\ end = start + 1
    /\ Bun__visibleWidthExcludeANSI(ellipsis) = 1
    /\ ~needStartEllipsis /\ ~needEndEllipsis
    /\ \E i \in 1..Len(input) : input[i] = ESC

\* ------------------------------------------------- C26
\* the start is cut, the ellipsis fits at the start (W < end - start) and a
\* cluster starts at a column of the range
StartCutFits ==
    /\ EllipsisWidth > 0 /\ RangeStart > 0
    /\ EllipsisWidth < RangeEnd - RangeStart
    /\ \E j \in 1..Len(Clusters(input)) :
           RangeStart <= Clusters(input)[j].col /\ Clusters(input)[j].col < RangeEnd

\* the output shows the ellipsis before anything else
StartsWithEllipsis ==
    /\ ret = "string"
    /\ SelectSeq(result, IsEllipsisOrText) # <<>>
    /\ IsEllipsisChunk(SelectSeq(result, IsEllipsisOrText)[1])
    /\ SelectSeq(result, IsEllipsisOrText)[1].s = ellipsis

\* C26 as stated: when the start is cut, the start ellipsis fits and a
\* cluster starts at a column in [start, end), the output is not empty and
\* contains the start ellipsis.
C26_AsStated == (Done /\ StartCutFits) => StartsWithEllipsis

\* ------------------------------------------------- C27
\* the step joins a codepoint to the cluster of an included codepoint while
\* ANSI sequences are pending between the two
JoinsWithPending ==
    /\ include /\ hasPrev /\ pending # <<>>
    /\ gs'.count = gs.count + 1 /\ p' > p

PendingChunks == [j \in 1..Len(pending) |-> AnsiChunk(Cur, pending[j])]

\* the pending sequences go, unfiltered, where the cluster is, after the
\* codepoints it already has and before the joining one, and the style
\* state is the one after them
FlushedInPlace ==
    /\ pending' = <<>>
    /\ (IF inSpecZone THEN specZone' ELSE result')
           = CopyTarget(Cur) \o PendingChunks \o <<CopyChunk(Cur, "cp", p' - p)>>
    /\ activeStyles' = StylesAfter(PendingChunks, activeStyles)

\* C27 as stated: an ANSI sequence between an included codepoint and a
\* codepoint that joins its cluster is emitted unfiltered and in place,
\* before the joining codepoint, and applied to the style state, also when
\* the cluster is the last one of the window.
C27_AsStated == [][JoinsWithPending => FlushedInPlace]_vars

\* the same with the clusters held in the speculative zone left out
C27_OutsideZone == [][(JoinsWithPending /\ ~inSpecZone) => FlushedInPlace]_vars

\* ------------------------------------------------- C28
IsOpenChunk(c) == c.k = "open"
IsCloseChunk(c) == c.k = "close"
IsInputSgrChunk(c) == c.k = "Sgr"

SynthOpens(chunks) == SelectSeq(chunks, IsOpenChunk)
SynthCloses(chunks) == SelectSeq(chunks, IsCloseChunk)

\* the opens written at window entry are those of the active styles, oldest
\* first
OpensInInsertionOrder ==
    SynthOpens(result')
        = [j \in 1..Len(activeStyles) |-> Chunk("open", activeStyles[j].openCode, -1)]

\* the closes written at window exit are those of the active styles, newest
\* first
ClosesInReverseOrder ==
    SynthCloses(result)
        = [j \in 1..Len(activeStyles) |->
              Chunk("close", activeStyles[Len(activeStyles) + 1 - j].endCode, -1)]

\* with no SGR sequence inside the window, the j-th close from the end
\* closes the style the j-th open opened
ClosesMirrorOpens ==
    /\ Len(SynthCloses(result)) = Len(SynthOpens(result))
    /\ \A j \in 1..Len(activeStyles) :
           /\ SynthOpens(result)[j].s = activeStyles[j].openCode
           /\ SynthCloses(result)[Len(activeStyles) + 1 - j].s = activeStyles[j].endCode

\* C28: the opens of the active styles are appended in insertion order and
\* their closes in exactly the reverse order, so the synthesized closes
\* mirror the opens.
C28_OpensThenReverseCloses ==
    /\ [][(~include /\ include') => OpensInInsertionOrder]_vars
    /\ []((Done /\ ret = "string" /\ include) => ClosesInReverseOrder)
    /\ []((Done /\ ret = "string" /\ include /\ SelectSeq(result, IsInputSgrChunk) = <<>>)
            => ClosesMirrorOpens)

\* a slice entered with two styles active returned their opens and, in the
\* opposite order, their two different closes
C28_Witness ==
    /\ Done /\ ret = "string" /\ include /\ Len(activeStyles) = 2
    /\ activeStyles[1].endCode # activeStyles[2].endCode
    /\ Len(SynthOpens(result)) = 2 /\ Len(SynthCloses(result)) = 2
    /\ SynthCloses(result)[1].s = activeStyles[2].endCode
    /\ SynthCloses(result)[2].s = activeStyles[1].endCode

\* ------------------------------------------------- C29
\* the parameters of a decomposable SGR sequence read left to right as
\* operations: the reset, an end-code, or a start with the parameters it
\* consumes (38 or 48 with 5;N or 2;R;G;B is one start)
RECURSIVE StyleOps(_, _)
StyleOps(params, i) ==
    IF i > Len(params) THEN <<>>
    ELSE IF params[i] = 0 THEN <<[kind |-> "reset", codes |-> <<0>>]>> \o StyleOps(params, i + 1)
    ELSE IF params[i] \in {38, 48} /\ i + 2 <= Len(params) /\ params[i + 1] = 5
    THEN <<[kind |-> "start", codes |-> SubSeq(params, i, i + 2)]>> \o StyleOps(params, i + 3)
    ELSE IF params[i] \in {38, 48} /\ i + 4 <= Len(params) /\ params[i + 1] = 2
    THEN <<[kind |-> "start", codes |-> SubSeq(params, i, i + 4)]>> \o StyleOps(params, i + 5)
    ELSE IF params[i] \in {22, 23, 24, 25, 27, 28, 29, 39, 49, 55}
    THEN <<[kind |-> "end", codes |-> <<params[i]>>]>> \o StyleOps(params, i + 1)
    ELSE <<[kind |-> "start", codes |-> <<params[i]>>]>> \o StyleOps(params, i + 1)

\* the close sequence of a code: ESC [ code m
CloseSeq(code) == <<ESC, 91>> \o NumStr(code) \o <<109>>

\* the close of a start: 39 for 38, 49 for 48, otherwise the entry of the
\* open-to-close table, and the full reset for a code the table lacks
CloseOfStart(codes) ==
    IF codes[1] = 38 THEN CloseSeq(39)
    ELSE IF codes[1] = 48 THEN CloseSeq(49)
    ELSE IF sgrCloseCode(codes[1]) # 0 THEN CloseSeq(sgrCloseCode(codes[1]))
    ELSE <<ESC, 91, 48, 109>>

\* the open of a start: its parameters behind the introducer of seq
OpenOfStart(codes, seq) ==
    (IF seq[1] = C1_CSI THEN <<C1_CSI>> ELSE <<ESC, 91>>) \o JoinCodes(codes) \o <<109>>

WithoutClose(entries, close) == SelectSeq(entries, LAMBDA e : e.endCode # close)

\* the active styles after one operation
AfterOp(entries, op, seq) ==
    IF op.kind = "reset" THEN <<>>
    ELSE IF op.kind = "end" THEN WithoutClose(entries, CloseSeq(op.codes[1]))
    ELSE Append(WithoutClose(entries, CloseOfStart(op.codes)),
                [endCode |-> CloseOfStart(op.codes), openCode |-> OpenOfStart(op.codes, seq)])

RECURSIVE AfterOps(_, _, _)
AfterOps(entries, ops, seq) ==
    IF ops = <<>> THEN entries ELSE AfterOps(AfterOp(entries, ops[1], seq), Tail(ops), seq)

\* the active styles after the decomposable SGR sequence seq
AfterSgr(entries, seq) ==
    AfterOps(entries, StyleOps(parseSgrParams(SgrParamBytes(seq)).data, 1), seq)

IsOpaqueSgr(seq) ==
    parseSgrParams(SgrParamBytes(seq)).hasColon \/ parseSgrParams(SgrParamBytes(seq)).overflow

\* the step meets an SGR sequence before the window and applies it at once
AppliesSgrAtOnce ==
    AtTokenSite /\ ~include /\ TokenAt(Cur).ok /\ TokenAt(Cur).type = "Sgr"

SgrAtCursor == Span(input, p, TokenAt(Cur).after)

PendingSgr == Span(input, pending[1].start, pending[1].end)

\* C29: applying a decomposable SGR sequence processes its parameters left
\* to right: 0 clears the active styles; 38 or 48 with 5;N or 2;R;G;B is
\* one style with close 39 or 49; an end-code removes the active style
\* with that close, if any; any other code records a style with its close
\* from the table, or the full reset for an unknown code. Checked where a
\* sequence is applied at once before the window and where a pending
\* sequence is emitted inside it.
C29_ApplySemantics ==
    /\ [][(AppliesSgrAtOnce /\ ~IsOpaqueSgr(SgrAtCursor))
            => activeStyles' = AfterSgr(activeStyles, SgrAtCursor)]_vars
    /\ [][(include /\ OneSgrPending /\ ~PendingSgrOpaque /\ PendingSgrEmitted)
            => activeStyles' = AfterSgr(activeStyles, PendingSgr)]_vars

\* before the window, after a red foreground, a 256-colour foreground and
\* a sequence of the end-codes 39 and 22 and the code 1: only bold is active
C29_Witness ==
    /\ ~include /\ pc = "loop"
    /\ input = PieceRed \o Piece256 \o PieceCloseFgBold
    /\ p = Len(input)
    /\ activeStyles = <<[endCode |-> CloseSeq(22), openCode |-> <<ESC, 91, 49, 109>>]>>

\* ------------------------------------------------- C30
\* the number of parameters of an SGR sequence: one more than its
\* separators, an empty parameter after the last separator not counted
SeparatorsOf(seq) == {j \in 1..Len(seq) : seq[j] \in {58, 59}}

ParamCount(seq) ==
    IF SeparatorsOf(seq) = {} \/ SetMax(SeparatorsOf(seq)) < Len(seq) - 1
    THEN Cardinality(SeparatorsOf(seq)) + 1
    ELSE Cardinality(SeparatorsOf(seq))

\* more than kMax parameters, or a colon
IsOpaqueForm(seq) == ParamCount(seq) > kMax \/ \E j \in 1..Len(seq) : seq[j] = 58

\* the first parameter of a sequence that has a separator
FirstParam(seq) == parseSgrParams(SgrParamBytes(seq)).data[1]

\* one entry for the whole sequence: its open is the sequence itself, its
\* close the one the table gives for the first parameter, or the full reset
OpaqueEntry(seq) ==
    [endCode |-> IF sgrCloseCode(FirstParam(seq)) # 0
                 THEN CloseSeq(sgrCloseCode(FirstParam(seq))) ELSE <<ESC, 91, 48, 109>>,
     openCode |-> seq]

RecordedOpaque(seq) ==
    activeStyles'
        = Append(WithoutClose(activeStyles, OpaqueEntry(seq).endCode), OpaqueEntry(seq))

CsiFinalAt(d, i) == FirstNonBody(d, CsiBodyStart(d, i))

\* a complete CSI: parameter and intermediate bytes, then a final byte
CompleteCsiAt(d, i) ==
    /\ IsCsiIntroAt(d, i)
    /\ CsiFinalAt(d, i) < Len(d)
    /\ At(d, CsiFinalAt(d, i)) >= 64 /\ At(d, CsiFinalAt(d, i)) <= 126

\* the final byte is 'm' and every byte before it is a digit, ';' or ':'
HasSgrForm(d, i) ==
    /\ At(d, CsiFinalAt(d, i)) = 109
    /\ \A k \in CsiBodyStart(d, i)..(CsiFinalAt(d, i) - 1) :
           (At(d, k) >= 48 /\ At(d, k) <= 57) \/ At(d, k) \in {58, 59}

CsiAtCursor == Span(input, p, CsiFinalAt(input, p) + 1)

\* the styles after the SGR sequence seq is applied
StylesWith(seq) ==
    IF IsOpaqueForm(seq)
    THEN Append(WithoutClose(activeStyles, OpaqueEntry(seq).endCode), OpaqueEntry(seq))
    ELSE AfterSgr(activeStyles, seq)

\* the step takes the complete CSI at the cursor as one token of the given
\* type: buffered with that type inside the window; before the window
\* applied to the style tracker if it is an SGR and skipped if it is not
ClassifiedAs(type) ==
    /\ p' = CsiFinalAt(input, p) + 1
    /\ position' = position /\ result' = result
    /\ include => /\ pending' = Append(pending, [PendingEntry(Cur, NoMatch) EXCEPT
                                                    !.end = CsiFinalAt(input, p) + 1,
                                                    !.type = type])
                  /\ activeStyles' = activeStyles
    /\ ~include => /\ pending' = pending
                   /\ activeStyles' = IF type = "Sgr" THEN StylesWith(CsiAtCursor)
                                      ELSE activeStyles

OnlyControlsPending ==
    pending # <<>> /\ \A j \in 1..Len(pending) : pending[j].type = "Control"

\* C31: a complete CSI sequence is an SGR if and only if its final byte is
\* 'm' and every byte between the introducer and the final byte is a
\* decimal digit, ';' or ':'; every other complete CSI sequence is a
\* control token, and control tokens are never applied to the style
\* tracker.
C31_SgrClassification ==
    /\ [][(AtTokenSite /\ CompleteCsiAt(input, p))
            => ClassifiedAs(IF HasSgrForm(input, p) THEN "Sgr" ELSE "Control")]_vars
    /\ [][OnlyControlsPending => activeStyles' = activeStyles]_vars

\* inside the window, with a style active, ESC [ ? 1 m was buffered as a
\* control token
C31_Witness ==
    /\ include /\ pc = "loop" /\ activeStyles # <<>>
    /\ pending # <<>>
    /\ pending[Len(pending)].type = "Control"
    /\ Span(input, pending[Len(pending)].start, pending[Len(pending)].end) = PieceCsiPrivM

\* ------------------------------------------------- C32
\* the input ends in a CSI that has no final byte, and that CSI starts at
\* unit i
EndsInOpenCsi(d, i) ==
    /\ i < Len(d) /\ UnterminatedCsiAt(d, i)
    /\ \A k \in 0..(i - 1) : ~(UnterminatedCsiAt(d, k) \/ MalformedCsiAt(d, k))

\* no unit from i on is in the buffer as visible text
NoTextFrom(chunks, i) == \A u \in UnitsOf(chunks) : u < i

\* C32: a CSI that reaches the end of the input before a final byte is one
\* token up to the end of the input, a control token and no SGR, and it
\* adds no visible column: the walk is at the end of the input after it
\* with position and the grapheme state as before, and none of its units
\* is returned as visible text.
C32_UnterminatedCsi ==
    /\ [][(AtTokenSite /\ UnterminatedCsiAt(input, p)) => ControlTokenTo(Len(input))]_vars
    /\ [](Done => \A i \in 0..(Len(input) - 1) :
                      EndsInOpenCsi(input, i) => NoTextFrom(result, i))

\* after a visible character, ESC [ 3 ; at the end of the input was
\* buffered as one control token and the walk stands at the end of input
C32_Witness ==
    /\ include /\ pc = "loop" /\ p = Len(input) /\ Len(input) >= 5
    /\ Span(input, Len(input) - 4, Len(input)) = PieceCsiParam
    /\ position = 0 /\ hasPrev
    /\ pending # <<>>
    /\ pending[Len(pending)].type = "Control"
    /\ pending[Len(pending)].start = Len(input) - 4
    /\ pending[Len(pending)].end = Len(input)

\* ------------------------------------------------- C33
\* a string terminator at unit k: BEL, 0x9C, or ESC \
IsTerminatorAt(d, k) ==
    \/ At(d, k) = BEL
    \/ At(d, k) = C1_ST
    \/ At(d, k) = ESC /\ k + 1 < Len(d) /\ At(d, k + 1) = 92

\* the units after the OSC 8 introducer at unit i
Osc8BodyStart(d, i) == IF At(d, i) = ESC THEN i + 4 ELSE i + 3

\* the unit after the first terminator at or after unit from
AfterFirstTerminator(d, from) ==
    SetMin({k \in from..(Len(d) - 1) : IsTerminatorAt(d, k)})
        + (IF At(d, SetMin({k \in from..(Len(d) - 1) : IsTerminatorAt(d, k)})) = ESC
           THEN 2 ELSE 1)

\* C33 as stated: a hyperlink token ends at the first terminator that
\* follows its introducer, so it has no terminator in its interior.
C33_AsStated ==
    (AtTokenSite /\ TokenAt(Cur).ok /\ TokenAt(Cur).type = "Hyperlink")
        => TokenAt(Cur).after = AfterFirstTerminator(input, Osc8BodyStart(input, p))

\* ------------------------------------------------- C34
InWalk == pc \in {"loop", "run"}

\* the clusters of the input that start before unit q, and from unit q on
StartedBefore(cs, q) == {j \in 1..Len(cs) : cs[j].first < q}
StartingFrom(cs, q) == {j \in 1..Len(cs) : cs[j].first >= q}

\* the start column of the cluster the walk is in: the one it is
\* accumulating, or the next one when none is open
CurrentColumn(cs) ==
    IF hasPrev THEN cs[SetMax(StartedBefore(cs, p))].col
    ELSE cs[SetMin(StartingFrom(cs, p))].col

\* position is the start column of the current cluster
PositionAtClusterStart ==
    (InWalk /\ (IF hasPrev THEN StartedBefore(Clusters(input), p) # {}
                ELSE StartingFrom(Clusters(input), p) # {}))
        => position = CurrentColumn(Clusters(input))

\* what a step adds to position: the width of the cluster it finishes, and
\* one column for each printable ASCII character it passes in bulk
PositionGrowth ==
    position' = position + (IF hasPrev THEN gsWidth(gs) ELSE 0)
                         + (IF hasPrev' THEN 0 ELSE p' - p)

\* the step joins a codepoint to the open cluster
JoinStep == hasPrev /\ hasPrev' /\ p' > p /\ gs'.count = gs.count + 1

\* C34: position changes only at a cluster break, where it grows by the
\* width of the cluster just finished, and never decreases; inside a
\* cluster it stays at the start column of the cluster, so position is
\* compared with start, end and specEnd as the start column of the cluster
\* being decided. The include flag, once true, never becomes false.
C34_PositionAndInclude ==
    /\ [][position' # position => PositionGrowth]_vars
    /\ [][position' >= position]_vars
    /\ [][JoinStep => position' = position]_vars
    /\ [](PositionAtClusterStart)
    /\ [][include => include']_vars

\* inside the window, after a wide cluster with a joined mark, the walk is
\* in a cluster that starts at column 2
C34_Witness ==
    /\ InWalk /\ include /\ hasPrev /\ position = 2 /\ p = 3
    /\ Len(input) >= 3 /\ Span(input, 0, 3) = PieceWide \o PieceCombining \o PieceA

\* ------------------------------------------------- C35
\* the width accumulator holds a cluster
Accumulating == pc \in {"cluster", "acc"} /\ gs.count >= 1

\* the per-cluster width table, rule by rule in the order it is stated
TableWidth(g) ==
    IF g.count = 0 THEN 0
    ELSE IF g.regionalIndicator /\ g.count >= 2 THEN 2
    ELSE IF g.regionalIndicator /\ g.count = 1 THEN 1
    ELSE IF g.keycap THEN 2
    ELSE IF g.emojiBase /\ (g.skinTone \/ g.zwj) THEN 2
    ELSE IF g.vs15 \/ g.vs16
         THEN (IF g.baseWidth = 2 THEN 2
               ELSE IF g.vs16 /\ g.firstCp < 128 THEN 1
               ELSE IF g.vs16 THEN 2
               ELSE 1)
    ELSE g.nonEmojiWidth

\* C35 as stated: for every state of the accumulator, width() is the value
\* of the first matching rule of the width table, the accumulated
\* non-emoji width when no other rule matches.
C35_AsStated == Accumulating => gsWidth(gs) = TableWidth(gs)

\* ------------------------------------------------- C36
\* none of the regional-indicator, keycap, emoji and variation-selector
\* rules matches the accumulator
NoRuleMatches(g) ==
    /\ ~g.regionalIndicator
    /\ ~g.keycap
    /\ ~(g.emojiBase /\ (g.skinTone \/ g.zwj))
    /\ ~g.vs15
    /\ ~g.vs16

\* C36 as stated: for a cluster that matches none of the rules, width()
\* is the accumulated non_emoji_width, whatever the number of codepoints
\* added.
C36_AsStated == (Accumulating /\ NoRuleMatches(gs)) => gsWidth(gs) = gs.nonEmojiWidth

\* ------------------------------------------------- C37
\* a step of add(): reset() leaves count at 1, add() at 2 or more
AddStep == pc = "acc" /\ gs.count >= 1 /\ gs'.count >= 2

\* add() of the codepoint now in lastCp: both fields grow by saturating
\* sums and a field at its bound stays there
SaturatingAdd ==
    LET w == Bun__codepointWidth(gs'.lastCp)
    IN  /\ gs'.count = Min2(gs.count + 1, 255)
        /\ gs'.nonEmojiWidth = Min2(gs.nonEmojiWidth + w, 1023)
        /\ gs.count = 255 => gs'.count = 255
        /\ gs.nonEmojiWidth = 1023 => gs'.nonEmojiWidth = 1023
        /\ gs'.count >= gs.count
        /\ gs'.nonEmojiWidth >= gs.nonEmojiWidth

\* C37: after any number of add() calls non_emoji_width is at most 1023
\* and count at most 255; each add() grows them by a saturating sum, a
\* field at its bound is left unchanged, and neither field ever decreases
\* (no wrap-around).
C37_Saturation ==
    /\ [](Accumulating => (gs.nonEmojiWidth <= 1023 /\ gs.count <= 255))
    /\ [][AddStep => SaturatingAdd]_vars

\* both fields at their bounds after add() of a spacing mark
C37_Witness ==
    /\ pc = "acc"
    /\ gs.count = 255
    /\ gs.nonEmojiWidth = 1023
    /\ gs.lastCp = 2307

\* ------------------------------------------------- C38
\* the step processes the visible codepoint at p, with a previous one
CpStep ==
    /\ pc = "run" /\ hasPrev /\ p < Len(input) /\ p' > p
    /\ (p < runEnd \/ ~TokenAt(Cur).ok)

CpAtCursor == decodeUTF16(input, p)[1]

CrLfPair == prevVisCp = CR /\ CpAtCursor = LF

TouchesCrLf == prevVisCp \in {CR, LF} \/ CpAtCursor \in {CR, LF}

\* the step joined the codepoint: the cluster, its column and the
\* inclusion decision carry over
JoinedCp == gs' = gsAdd(gs, CpAtCursor) /\ position' = position /\ include' = include

\* the step broke before the codepoint: the finished cluster is counted
\* and, when the walk goes on, the codepoint starts a new one
BrokeBeforeCp ==
    /\ position' = position + gsWidth(gs)
    /\ InWalk' => gs' = gsReset(CpAtCursor)

\* the decision of the walk, case by case
WalkDecision ==
    IF CrLfPair THEN JoinedCp /\ breakState' = breakState
    ELSE IF TouchesCrLf THEN BrokeBeforeCp /\ (InWalk' => breakState' = 0)
    ELSE LET oracle == Bun__graphemeBreak(prevVisCp, CpAtCursor, breakState)
         IN  /\ IF oracle[1] THEN BrokeBeforeCp ELSE JoinedCp
             /\ InWalk' => breakState' = oracle[2]

\* the code unit at q was copied to the output
EmittedAt(q) == \E j \in 1..Len(result) : result[j].k = "cp" /\ result[j].i = q

\* a CR immediately followed by LF is in the result with it or not at all
CrLfUnsplit ==
    ret = "string"
        => \A q \in 0..(Len(input) - 2) :
               (At(input, q) = CR /\ At(input, q + 1) = LF)
                   => (EmittedAt(q) <=> EmittedAt(q + 1))

\* the walk reached the end of the input without a cut
WalkedAll == pc = "walkDone" /\ p >= Len(input) /\ ~sawCutEnd

\* the columns counted by the walk
WalkWidth == position + (IF hasPrev THEN gsWidth(gs) ELSE 0)

CorkShare(u, s) == IF isCorkedWith(u, s) THEN u.corkBuffer ELSE <<>>

\* everything written to, buffered for or corked for socket s
BytesOf(u, s) == u.written[s] \o u.buffer[s] \o CorkShare(u, s)

\* socket s holds bytes of its own payloads only
OnlyOwnBytes(s) == \A j \in 1..Len(BytesOf(uws, s)) : BytesOf(uws, s)[j][1] = s

\* a step of cork()
CorkStep == pc = "socket" /\ uws' # uws /\ uws'.call.op = "cork"

\* another socket held the cork when the call was made
OtherCorked(u, s) == u.corkedSocket # nullptr /\ u.corkedSocket # s

\* the socket that held the cork has lost it and its corked bytes are
\* written to it or in its per-socket buffer; nothing went to socket s
UncorkedFirst(s) ==
    LET other == uws.corkedSocket
    IN  /\ uws'.written[other] \o uws'.buffer[other]
               = uws.written[other] \o uws.buffer[other] \o uws.corkBuffer
        /\ uws'.corkBuffer = <<>>
        /\ uws'.written[s] = uws.written[s]
        /\ uws'.buffer[s] = uws.buffer[s]

C40_ByteConservation ==
    pc = "socket" => \A s \in Sockets : BytesOf(uws, s) = Payload(s, 0, uws.accepted[s])

\* uncork() of two corked bytes of which the socket took none, after one
\* byte written directly
C40_Witness ==
    /\ pc = "socket"
    /\ uws.call = [op |-> "uncork", s |-> 1, corkedBefore |-> 1, offsetBefore |-> 2]
    /\ uws.accepted[1] = 3
    /\ uws.written[1] = <<<<1, 1>>>>
    /\ uws.buffer[1] = <<<<1, 2>>, <<1, 3>>>>

====
